---- MODULE Spec2Model ----
(***************************************************************************)
(* Scheduling, deduplication and delivery orchestration of the unified     *)
(* market bot: the Capital Market and Market Insights job cycles over the  *)
(* SQLite Dedup Store (services/scheduler.py, services/database.py,        *)
(* capital_market/tracker.py and bot_handler.py, market_insights/          *)
(* telegram_notifier.py and data_processor.py), the retry wrapper and the  *)
(* decorated fetchers (utils/resilience.py), the APScheduler registration  *)
(* of the jobs (UnifiedScheduler.start), the store's methods row by row    *)
(* and the recency check of the insights.                                  *)
(***************************************************************************)
EXTENDS Integers, Sequences, FiniteSets, TLC

(***************************************************************************)
(* Bounds of the model.                                                    *)
(***************************************************************************)
\* longest listing one fetch returns
MaxFetch == 3
\* settings.MAX_NEWS_PER_RUN (an environment setting, 10 by default), scaled
MAX_NEWS_PER_RUN == 2
\* largest retries argument of retry_with_backoff
MaxRetries == 2
\* ticks of the clock a schedule is followed for
MaxTime == 4
\* ticks in a day of the daily trigger
DayLen == 3
\* last value of the store's clock
MaxClock == 1
\* restarts of the process that are followed
MaxBoots == 2
\* longest news_date string, in tokens
MaxDateLen == 4
MaxItems == 2
MaxRows == 3

\* last value of the wall clock while items are parsed
MaxNow == 2
\* parse calls followed in one process run
MaxCalls == 2
\* characters of the notification that enter an insight's id (50 in the
\* source, scaled to the lengths of the modelled notifications)
IdPrefix == 2

\* connections that may be open at once
MaxConns == 2

\* last IST date the cache is followed to
MaxIstDate == 1

(***************************************************************************)
(* Values.                                                                 *)
(***************************************************************************)
Jobs == {"cm", "mi"}
\* NewsArticle.news_id values and MarketInsight.insight_id values
NewsIds == {"n1", "n2"}
InsightIds == {"i1", "i2"}
\* A NewsArticle as the job reads it: its fingerprint and whether its
\* description is non-empty.  A MarketInsight: its fingerprint and whether
\* the recency check (_is_today_ist, or a missing news_date) keeps it.
Articles == [id : NewsIds, keep : BOOLEAN]
Insights == [id : InsightIds, keep : BOOLEAN]
SeqUpTo(S, n) == UNION {[1..k -> S] : k \in 0..n}
Range(s) == {s[k] : k \in 1..Len(s)}
IdsOf(s) == {s[k].id : k \in 1..Len(s)}

VARIABLES
  \* ---- one Source Job and its namespace of the Dedup Store
  job,        \* the job this behaviour follows: "cm" or "mi"
  chat_id,    \* settings.TELEGRAM_CHAT_ID is set (TelegramNotifier._validate_config)
  pc,         \* position of the job coroutine
  fetched,    \* articles / all_insights of the current cycle
  batch,      \* valid_articles / new_insights of the current cycle
  idx,        \* loop position in batch (1-based)
  attempt,    \* send_news: attempt of the retry loop (0-based)
  store,      \* fingerprints in the job's table of the SQLite file
  \* ---- history of the run (not program state)
  channel,    \* items whose transmit was confirmed in this cycle, in order
  log,        \* outcome of the send of each batch item handled so far
  rfail,      \* fingerprints whose dedup read raised in this cycle's filter
  rerr,       \* a dedup read raised in this cycle
  wfail,      \* fingerprints whose commit raised in this cycle
  delivered,  \* fingerprints whose transmit was ever confirmed
  unacked,    \* transmit confirmed in an abandoned cycle, never committed
  ended,      \* how the process went down: "none", "crash", "cancel"
  send_news,  \* the send_news call in progress: attempts made, sleeps
              \* requested, what it returned
  send_notification,  \* the last send_notification call: attempts made,
                      \* the errors they raised, what it returned
  fetch_failed,       \* the fetch or the parse of this cycle failed
  \* ---- retry_with_backoff: the decorator's arguments and both wrappers
  retries, initial_delay, max_delay, backoff_factor,
  script,         \* what each invocation of the wrapped function does
  fetcher,        \* the decorated fetch function, "none" for any function
  events,         \* what the network does at each request of the fetcher
  async_wrapper,  \* the frame of async_wrapper and what it did so far
  sync_wrapper,   \* the frame of sync_wrapper and what it did so far
  \* ---- the AsyncIOScheduler of UnifiedScheduler and the event loop
  sched,          \* "new", "running" (after start), "stopped"
  now,            \* the clock, in ticks
  enabled,        \* settings.ENABLE_* of each job
  interval,       \* mi_interval / cm_interval, in ticks
  daily_time,     \* GLOBAL_MARKETS_DAILY_TIME, as a tick of the day
  next_run,       \* next_run_time of each registered job
  instances,      \* running instances of each job
  waiting,        \* what a running job is suspended in
  fired,          \* what the last firing of each job did
  \* ---- the SQLite file of UnifiedDatabase, used directly
  capital_market_news,  \* rows of the table: news_id, attrs, sent_at
  notifications,        \* rows of the table: insight_id, attrs, sent_at
  db_clock,             \* CURRENT_TIMESTAMP
  db_up,                \* a process with a UnifiedDatabase is running
  boots,                \* restarts of the process so far
  returned,             \* the last call of a store method and its result
  acked,                \* <<table, fingerprint>> whose add returned True
  \* ---- the recency check of DataProcessor on one insight
  today_str,            \* today's date in IST, as strftime("%d %b, %Y") gives it
  news_date,            \* the insight's news_date (timeStamp of the API item)
  kept,                 \* "pending", then "kept" or "dropped"
  \* ---- the send loops of the three jobs on the one event loop and channel
  loop,                 \* of each job: where it is, items left, sleep left
  since,                \* seconds since the last confirmed transmit (capped)
  flip,                 \* parity of the number of confirmed transmits
  \* ---- the item loop of parse_news / extract_insights
  parser,               \* "parse_news" or "extract_insights"
  rows,                 \* the rows of the table / the items of marketInsights
  row_idx,              \* the row the loop is at (1-based)
  parsed,               \* articles / insights: what was appended so far
  \* ---- the fingerprints given to parsed items
  raw,                  \* the page row / link / API item that is parsed
  env,                  \* what surrounds the call: the wall clock, the calls
                        \* made by this process, the process run, the
                        \* fingerprints the Dedup Store holds
  made,                 \* <<identity fields, fingerprint>> of every item built
  \* ---- a Capital Market source that keeps returning one listing
  source,               \* the listing every scrape returns
  fate,                 \* of each fingerprint: what every send of it does
  \* ---- the connections the Dedup Store operations open
  conns,                \* the sqlite3 connections that are open: who opened
                        \* each, in which operation, and whether its
                        \* transaction holds the write lock of the file
  news_rows,            \* news_id values in capital_market_news
  insight_rows,         \* insight_id values in notifications
  db_ret,               \* the operation that returned last and its result
  \* ---- send_global_markets_update: one Global Markets cycle
  gm_pc,                \* where the coroutine is
  all_data,             \* of each category: the items its API returned
  image_paths,          \* the categories an image was made for, in order
  gm_idx,               \* the image the send loop is at (1-based)
  sent_count,           \* images sent so far
  gm_log,               \* what the send of each image handled so far did
  gm_ret,               \* what the call returned: "none", "true", "false"
  \* ---- cache_manager.py: CacheManager and its send_cache.json
  cache,                \* self.cache: of each key its entry
  cache_file,           \* send_cache.json: missing, unreadable, or the
                        \* members of the JSON object last written
  ist,                  \* the IST clock: the date, and whether the time is
                        \* within 00:00-00:05
  cache_boots,          \* process starts so far
  cache_ret,            \* the method called last and what it returned
  \* ---- history of the cache (not program state)
  marked,               \* of each key: date and process run of the last
                        \* mark_as_sent since the cache was last cleared
  lost                  \* a restart has changed what the cache held

jobVars == <<job, chat_id, pc, fetched, batch, idx, attempt, store,
             channel, log, rfail, rerr, wfail, delivered, unacked, ended,
             send_news, send_notification, fetch_failed>>

retryVars == <<retries, initial_delay, max_delay, backoff_factor, script,
               fetcher, events, async_wrapper, sync_wrapper>>

schedVars == <<sched, now, enabled, interval, daily_time, next_run,
               instances, waiting, fired>>

dbVars == <<capital_market_news, notifications, db_clock, db_up, boots,
            returned, acked>>

dateVars == <<today_str, news_date, kept>>

chanVars == <<loop, since, flip>>

parseVars == <<parser, rows, row_idx, parsed>>

fpVars == <<raw, env, made>>

srcVars == <<source, fate>>

connVars == <<conns, news_rows, insight_rows, db_ret>>

gmVars == <<gm_pc, all_data, image_paths, gm_idx, sent_count, gm_log, gm_ret>>

cacheVars == <<cache, cache_file, ist, cache_boots, cache_ret, marked, lost>>

vars == <<jobVars, retryVars, schedVars, dbVars, dateVars, chanVars,
          parseVars, fpVars, srcVars, connVars, gmVars, cacheVars>>

\* what the steps of one part of the program leave alone
otherThanJob == <<retryVars, schedVars, dbVars, dateVars, chanVars,
  parseVars, fpVars, srcVars, connVars, gmVars, cacheVars>>
otherThanRetry == <<jobVars, schedVars, dbVars, dateVars, chanVars,
  parseVars, fpVars, srcVars, connVars, gmVars, cacheVars>>
otherThanSched == <<jobVars, retryVars, dbVars, dateVars, chanVars,
  parseVars, fpVars, srcVars, connVars, gmVars, cacheVars>>
otherThanDb == <<jobVars, retryVars, schedVars, dateVars, chanVars,
  parseVars, fpVars, srcVars, connVars, gmVars, cacheVars>>
otherThanDate == <<jobVars, retryVars, schedVars, dbVars, chanVars,
  parseVars, fpVars, srcVars, connVars, gmVars, cacheVars>>
otherThanChan == <<jobVars, retryVars, schedVars, dbVars, dateVars,
  parseVars, fpVars, srcVars, connVars, gmVars, cacheVars>>
otherThanParse == <<jobVars, retryVars, schedVars, dbVars, dateVars,
  chanVars, fpVars, srcVars, connVars, gmVars, cacheVars>>
otherThanFp == <<jobVars, retryVars, schedVars, dbVars,
  dateVars, chanVars, parseVars, srcVars, connVars, gmVars, cacheVars>>
otherThanSrc == <<jobVars, retryVars, schedVars, dbVars,
  dateVars, chanVars, parseVars, fpVars, connVars, gmVars, cacheVars>>
otherThanConn == <<jobVars, retryVars, schedVars, dbVars,
  dateVars, chanVars, parseVars, fpVars, srcVars, gmVars, cacheVars>>
otherThanGm == <<jobVars, retryVars, schedVars, dbVars,
  dateVars, chanVars, parseVars, fpVars, srcVars, connVars, cacheVars>>
otherThanCache == <<jobVars, retryVars, schedVars, dbVars,
  dateVars, chanVars, parseVars, fpVars, srcVars, connVars, gmVars>>

(***************************************************************************)
(* services/database.py                                                    *)
(***************************************************************************)
\* _init_tables with DROP TABLE before CREATE TABLE
InitTables_recreate(table) == {}

\* _init_tables: CREATE TABLE IF NOT EXISTS leaves an existing table alone
InitTables(table) == table

\* is_news_sent answering True when the query raises
is_news_sent_fail_open(table, news_id, raises) ==
  IF raises THEN TRUE ELSE news_id \in table

\* is_news_sent: SELECT 1 ... WHERE news_id = ?; False when the query raises
is_news_sent(table, news_id, raises) ==
  IF raises THEN FALSE ELSE news_id \in table

\* an INSERT that is committed although the call reports an error
Insert_despite_error(table, id, raises) == table \cup {id}

\* add_sent_news / add_notification: INSERT under the UNIQUE constraint;
\* IntegrityError (already present) and any other error leave the table as is
Insert(table, id, raises) ==
  IF raises THEN table
  ELSE IF id \in table THEN table
  ELSE table \cup {id}

\* get_all_insight_ids: SELECT insight_id FROM notifications; set() on error
get_all_insight_ids(table, raises) ==
  IF raises THEN {} ELSE table

(***************************************************************************)
(* capital_market/tracker.py, scheduler.py: the Capital Market filter      *)
(***************************************************************************)
\* filter_new_articles without the is_sent test
filter_new_articles_unfiltered(articles, table, F) == articles

\* NewsTracker.filter_new_articles: keeps, in order, the articles for which
\* is_sent is False; F is the set of ids whose read raises
filter_new_articles(articles, table, F) ==
  LET new(a) == ~is_news_sent(table, a.id, a.id \in F)
  IN SelectSeq(articles, new)

\* the description filter returning its result newest-last
valid_articles_reversed(new_articles) ==
  LET described(a) == a.keep
      valid == SelectSeq(new_articles, described)
  IN [k \in 1..Len(valid) |-> valid[Len(valid) + 1 - k]]

\* job_capital_market: [a for a in new_articles if a.description]
valid_articles(new_articles) ==
  LET described(a) == a.keep
  IN SelectSeq(new_articles, described)

\* the slice taken from the end of the list: valid_articles[-MAX_NEWS_PER_RUN:]
Truncate_tail(articles) ==
  IF Len(articles) > MAX_NEWS_PER_RUN
  THEN SubSeq(articles, Len(articles) - MAX_NEWS_PER_RUN + 1, Len(articles))
  ELSE articles

\* the slice one article longer: valid_articles[:MAX_NEWS_PER_RUN + 1]
Truncate_plus_one(articles) ==
  IF Len(articles) > MAX_NEWS_PER_RUN + 1
  THEN SubSeq(articles, 1, MAX_NEWS_PER_RUN + 1)
  ELSE articles

\* job_capital_market: valid_articles[:MAX_NEWS_PER_RUN]
Truncate(articles) ==
  IF Len(articles) > MAX_NEWS_PER_RUN
  THEN SubSeq(articles, 1, MAX_NEWS_PER_RUN)
  ELSE articles

(***************************************************************************)
(* market_insights/data_processor.py: the Market Insights filter           *)
(***************************************************************************)
\* DataProcessor.filter_new_insights: drops an insight that has a news_date
\* which is not today, then one whose insight_id is in seen_ids
filter_new_insights(all_insights, seen_ids) ==
  LET new(i) == i.keep /\ i.id \notin seen_ids
  IN SelectSeq(all_insights, new)

(***************************************************************************)
(* The job coroutines.  pc:                                                *)
(*   idle    not running             fetch  awaiting the fetch             *)
(*   queued  the batch is computed   send   awaiting a send                *)
(*   sent    send_news returned True sleep  awaiting asyncio.sleep         *)
(*   commit  the save loop of Market Insights                              *)
(*   done    about to return         down   the process is not running     *)
(* fetched and rfail are kept only at "queued": the filter's input beside  *)
(* its output.                                                             *)
(***************************************************************************)
\* no call of send_news is in progress
NoSend == [tries |-> 0, waits |-> <<>>, errs |-> <<>>, ret |-> "pending"]

\* no call of send_notification has returned
NoNotification == [tries |-> 0, errs |-> <<>>, ret |-> "pending"]

JobInit ==
  /\ job \in Jobs
  /\ chat_id \in (IF job = "mi" THEN BOOLEAN ELSE {TRUE})
  /\ pc = "idle"
  /\ fetched = <<>> /\ batch = <<>> /\ idx = 0 /\ attempt = 0
  /\ store = {}
  /\ channel = <<>> /\ log = <<>> /\ rfail = {} /\ rerr = FALSE /\ wfail = {}
  /\ delivered = {} /\ unacked = {} /\ ended = "none"
  /\ send_news = NoSend
  /\ send_notification = NoNotification
  /\ fetch_failed = FALSE

\* the scheduler invokes the job function: the cycle begins with the fetch
JobStart ==
  /\ pc = "idle"
  /\ pc' = "fetch"
  /\ UNCHANGED <<job, chat_id, fetched, batch, idx, attempt, store, channel,
                 log, rfail, rerr, wfail, delivered, unacked, ended>>
  /\ UNCHANGED <<send_news, send_notification, fetch_failed>>
  /\ UNCHANGED otherThanJob

\* scrape handing on what was parsed before the failure
scrape_partial(listing, fails) == listing

\* NewsScraper.scrape: [] when fetch_page raises or returns nothing and when
\* parse_news fails as a whole, else the parsed articles
scrape(listing, fails) == IF fails THEN <<>> ELSE listing

\* what job_market_insights has after fetch_market_insights (None on any
\* error, then the job returns) and extract_insights ([] when the response
\* as a whole cannot be parsed)
all_insights_of(response, fails) == IF fails THEN <<>> ELSE response

\* job_capital_market up to the panel: scrape, filter_new_articles, the
\* description filter and the per-run cap.  scrape returns [] when the fetch
\* or the parse fails.  F: the ids whose is_news_sent query raises.
CM_Scrape(listing, fails, F) ==
  /\ job = "cm" /\ pc = "fetch"
  /\ LET articles == scrape(listing, fails)
         new_articles == filter_new_articles(articles, store, F)
     IN /\ batch' = Truncate(valid_articles(new_articles))
        /\ fetched' = articles
        /\ rfail' = F \cap IdsOf(articles)
        /\ rerr' = (F \cap IdsOf(articles) # {})
  /\ fetch_failed' = fails
  /\ pc' = "queued"
  /\ UNCHANGED <<job, chat_id, idx, attempt, store, channel, log, wfail,
                 delivered, unacked, ended>>
  /\ UNCHANGED <<send_news, send_notification>>
  /\ UNCHANGED otherThanJob

\* job_market_insights up to the panel: fetch, extract_insights,
\* get_all_insight_ids, filter_new_insights.  The ids are read only when the
\* response holds insights.
MI_Fetch(response, fails, raises) ==
  /\ job = "mi" /\ pc = "fetch"
  /\ LET insights == all_insights_of(response, fails)
         seen_ids == get_all_insight_ids(store, raises)
     IN /\ batch' = filter_new_insights(insights, seen_ids)
        /\ fetched' = insights
        /\ rfail' = IF raises /\ insights # <<>> THEN InsightIds ELSE {}
        /\ rerr' = (raises /\ insights # <<>>)
  /\ fetch_failed' = fails
  /\ pc' = "queued"
  /\ UNCHANGED <<job, chat_id, idx, attempt, store, channel, log, wfail,
                 delivered, unacked, ended>>
  /\ UNCHANGED <<send_news, send_notification>>
  /\ UNCHANGED otherThanJob

\* both jobs: "if not valid_articles: return" / "if not new_insights:
\* return", else the panel is printed and the send loop begins
Dispatch ==
  /\ pc = "queued"
  /\ pc' = IF batch = <<>> THEN "done" ELSE "send"
  /\ idx' = IF batch = <<>> THEN 0 ELSE 1
  /\ attempt' = 0
  /\ fetched' = <<>>
  /\ rfail' = {}
  /\ unacked' = unacked \ IdsOf(fetched)
  /\ wfail' = {}
  /\ UNCHANGED <<job, chat_id, batch, store, channel, log, rerr,
                 delivered, ended>>
  /\ UNCHANGED <<send_news, send_notification, fetch_failed>>
  /\ UNCHANGED otherThanJob

\* the loop of job_capital_market left after its first handled item
CMLeaveLoop ==
  /\ idx' = idx + 1
  /\ attempt' = 0
  /\ pc' = "done"

\* where the loop of job_capital_market goes after the item at idx
CMNextItem ==
  /\ idx' = idx + 1
  /\ attempt' = 0
  /\ pc' = IF idx + 1 > Len(batch) THEN "done" ELSE "send"

\* telegram.error: every error of the Bot API is a TelegramError, the
\* transient ones (TimedOut, NetworkError, RetryAfter) and the permanent ones
\* (BadRequest, Forbidden, InvalidToken) alike
TelegramError(outcome) == outcome \in {"transient", "permanent"}

\* CapitalMarketBotHandler.send_news, one pass of its retry loop: render and
\* send_photo.  A TelegramError is retried after retry_delay while
\* attempt < max_retries - 1, any other error ends the send with False.
max_retries_plus_one == 3 + 1

max_retries == 3
retry_delay == 2
CM_SendAttempt(outcome) ==
  /\ job = "cm" /\ pc = "send"
  /\ LET call == IF attempt = 0 THEN NoSend ELSE send_news
         tried == [call EXCEPT !.tries = call.tries + 1,
                               !.errs = IF outcome = "ok" THEN call.errs
                                        ELSE Append(call.errs, outcome)]
     IN \/ /\ outcome = "ok"
           /\ channel' = Append(channel, batch[idx])
           /\ delivered' = delivered \cup {batch[idx].id}
           /\ log' = Append(log, "sent")
           /\ pc' = "sent"
           /\ send_news' = [tried EXCEPT !.ret = "true"]
           /\ UNCHANGED <<idx, attempt>>
        \/ /\ TelegramError(outcome) /\ attempt < max_retries - 1
           /\ attempt' = attempt + 1
           /\ send_news' = [tried EXCEPT !.waits = Append(call.waits, retry_delay)]
           /\ UNCHANGED <<pc, idx, channel, delivered, log>>
        \/ /\ \/ TelegramError(outcome) /\ ~(attempt < max_retries - 1)
              \/ outcome = "error"
           /\ log' = Append(log, "failed")
           /\ CMNextItem
           /\ send_news' = [tried EXCEPT !.ret = "false"]
           /\ UNCHANGED <<channel, delivered>>
  /\ UNCHANGED <<job, chat_id, fetched, batch, store, rfail, rerr, wfail,
                 unacked, ended, send_notification, fetch_failed>>
  /\ UNCHANGED otherThanJob

\* job_capital_market: if success: self.cm_tracker.mark_as_sent(article)
CM_MarkAsSent(raises) ==
  /\ job = "cm" /\ pc = "sent"
  /\ store' = Insert(store, batch[idx].id, raises)
  /\ wfail' = IF raises THEN wfail \cup {batch[idx].id} ELSE wfail
  /\ pc' = "sleep"
  /\ send_news' = NoSend
  /\ UNCHANGED <<job, chat_id, fetched, batch, idx, attempt, channel, log,
                 rfail, rerr, delivered, unacked, ended, send_notification,
                 fetch_failed>>
  /\ UNCHANGED otherThanJob

\* job_capital_market: await asyncio.sleep(2) after a committed article
CM_SleepDone ==
  /\ job = "cm" /\ pc = "sleep"
  /\ CMNextItem
  /\ UNCHANGED <<job, chat_id, fetched, batch, store, channel, log, rfail,
                 rerr, wfail, delivered, unacked, ended>>
  /\ UNCHANGED <<send_news, send_notification, fetch_failed>>
  /\ UNCHANGED otherThanJob

\* TelegramNotifier.send_batch_notifications, one item: send_notification
\* (False without a send when chat_id is unset, else one send_message and
\* False on any error), then the rate-limit sleep unless it was the last item
MI_Send(outcome) ==
  /\ job = "mi" /\ pc = "send"
  /\ IF chat_id /\ outcome = "ok"
     THEN /\ channel' = Append(channel, batch[idx])
          /\ delivered' = delivered \cup {batch[idx].id}
          /\ log' = Append(log, "sent")
     ELSE /\ log' = Append(log, "failed")
          /\ UNCHANGED <<channel, delivered>>
  /\ IF idx < Len(batch)
     THEN pc' = "sleep" /\ idx' = idx
     ELSE pc' = "commit" /\ idx' = 1
  /\ send_notification' =
       [tries |-> IF chat_id THEN 1 ELSE 0,
        errs |-> IF chat_id /\ outcome # "ok" THEN <<outcome>> ELSE <<>>,
        ret |-> IF chat_id /\ outcome = "ok" THEN "true" ELSE "false"]
  /\ UNCHANGED <<job, chat_id, fetched, batch, attempt, store, rfail, rerr,
                 wfail, unacked, ended>>
  /\ UNCHANGED <<send_news, fetch_failed>>
  /\ UNCHANGED otherThanJob

\* send_batch_notifications: await asyncio.sleep(self.rate_limit_delay)
MI_SleepDone ==
  /\ job = "mi" /\ pc = "sleep"
  /\ idx' = idx + 1
  /\ pc' = "send"
  /\ UNCHANGED <<job, chat_id, fetched, batch, attempt, store, channel, log,
                 rfail, rerr, wfail, delivered, unacked, ended>>
  /\ send_notification' = NoNotification
  /\ UNCHANGED <<send_news, fetch_failed>>
  /\ UNCHANGED otherThanJob

\* job_market_insights: for insight in new_insights: add_notification(...)
MI_AddNotification(raises) ==
  /\ job = "mi" /\ pc = "commit"
  /\ store' = Insert(store, batch[idx].id, raises)
  /\ wfail' = IF raises THEN wfail \cup {batch[idx].id} ELSE wfail
  /\ idx' = idx + 1
  /\ pc' = IF idx + 1 > Len(batch) THEN "done" ELSE "commit"
  /\ UNCHANGED <<job, chat_id, fetched, batch, attempt, channel, log, rfail,
                 rerr, delivered, unacked, ended>>
  /\ send_notification' = NoNotification
  /\ UNCHANGED <<send_news, fetch_failed>>
  /\ UNCHANGED otherThanJob

\* the job function returns: its locals are gone
Return ==
  /\ pc = "done"
  /\ pc' = "idle"
  /\ send_news' = NoSend
  /\ send_notification' = NoNotification
  /\ fetch_failed' = FALSE
  /\ batch' = <<>> /\ idx' = 0 /\ attempt' = 0
  /\ channel' = <<>> /\ log' = <<>> /\ rerr' = FALSE
  /\ UNCHANGED <<job, chat_id, fetched, store, rfail, wfail, delivered,
                 unacked, ended>>
  /\ UNCHANGED otherThanJob

\* stop without the shutdown of the scheduler
stop_noop(running) == running

\* UnifiedScheduler.stop: scheduler.running afterwards; a running scheduler
\* is shut down (wait=False) and fires no job any more
stop(running) == FALSE

\* what an abandoned cycle leaves: memory is lost, the SQLite file stays.
\* At shutdown main returns once stop has returned and the process ends.
Abandon(how) ==
  /\ pc' = IF how = "cancel" /\ stop(TRUE) THEN "idle" ELSE "down"
  /\ send_news' = NoSend
  /\ send_notification' = NoNotification
  /\ fetch_failed' = FALSE
  /\ ended' = how
  /\ unacked' = (unacked \cup IdsOf(channel)) \ store
  /\ fetched' = <<>> /\ batch' = <<>> /\ idx' = 0 /\ attempt' = 0
  /\ channel' = <<>> /\ log' = <<>> /\ rfail' = {} /\ rerr' = FALSE
  /\ UNCHANGED <<job, chat_id, store, wfail, delivered>>

\* the process dies, at any point of a cycle
Crash ==
  /\ pc \in {"fetch", "queued", "send", "sent", "sleep", "commit", "done"}
  /\ Abandon("crash")
  /\ UNCHANGED otherThanJob

\* main: the job task is cancelled at shutdown; CancelledError is raised at
\* the await the coroutine is suspended in and is not caught by the job's
\* except Exception
Cancel ==
  /\ pc \in {"fetch", "send", "sleep"}
  /\ Abandon("cancel")
  /\ UNCHANGED otherThanJob

\* main, finally: await scheduler.stop() while no run of the job is in
\* flight
Shutdown ==
  /\ pc = "idle"
  /\ Abandon("cancel")
  /\ UNCHANGED otherThanJob

\* the process starts again: UnifiedDatabase.__init__ runs _init_tables
Restart ==
  /\ pc = "down"
  /\ pc' = "idle"
  /\ store' = InitTables(store)
  /\ ended' = "none"
  /\ UNCHANGED <<job, chat_id, fetched, batch, idx, attempt, channel, log,
                 rfail, rerr, wfail, delivered, unacked>>
  /\ UNCHANGED <<send_news, send_notification, fetch_failed>>
  /\ UNCHANGED otherThanJob

SendOutcomes == {"ok", "transient", "permanent", "error"}

\* the longest listing taken: of a failed fetch or parse only what had been
\* read before the failure, which is thrown away
Parsed(fails) == IF fails THEN 1 ELSE MaxFetch

JobNext ==
  \/ JobStart
  \/ \E fails \in BOOLEAN, F \in SUBSET NewsIds :
       \E listing \in SeqUpTo(Articles, Parsed(fails)) :
         CM_Scrape(listing, fails, F)
  \/ \E fails \in BOOLEAN, raises \in BOOLEAN :
       \E response \in SeqUpTo(Insights, Parsed(fails)) :
         MI_Fetch(response, fails, raises)
  \/ Dispatch
  \/ \E outcome \in SendOutcomes : CM_SendAttempt(outcome)
  \/ \E raises \in BOOLEAN : CM_MarkAsSent(raises)
  \/ CM_SleepDone
  \/ \E outcome \in SendOutcomes : MI_Send(outcome)
  \/ MI_SleepDone
  \/ \E raises \in BOOLEAN : MI_AddNotification(raises)
  \/ Return
  \/ Crash
  \/ Cancel
  \/ Shutdown
  \/ Restart

(***************************************************************************)
(* utils/resilience.py: retry_with_backoff.  The wrapped function is a     *)
(* script: invocation k returns normally ("ok"), raises an error of the    *)
(* declared exceptions tuple ("declared") or raises another error          *)
(* ("undeclared").  Both wrappers are run on the same arguments and the    *)
(* same script.  A wrapper frame:                                          *)
(*   pc       entry, call, wait, returned, raised (off: not in use)        *)
(*   attempt  the loop variable     delay  the local delay                 *)
(*   calls    invocations made      waits  the sleeps requested, in order  *)
(*   result   what the caller gets: the value or the error of invocation   *)
(*            `of`, or None when the loop runs out                         *)
(***************************************************************************)
Outcomes == {"ok", "declared", "undeclared"}

\* the (initial_delay, max_delay, backoff_factor) arguments tried: the
\* defaults, the call sites' initial_delay = 2, an initial_delay above
\* max_delay, and a factor of 3 under a low max_delay
BackoffArgs == {<<1, 10, 2>>, <<2, 10, 2>>, <<12, 10, 2>>, <<1, 4, 3>>}

Min(a, b) == IF a <= b THEN a ELSE b

\* range(n)
range(n) == 0..(n - 1)

Pending == [kind |-> "pending", of |-> 0]
None == [kind |-> "none", of |-> 0]

Frame(p) == [pc |-> p, attempt |-> 0, delay |-> 0, calls |-> 0,
             waits |-> <<>>, result |-> Pending]

\* the three decorated fetchers, all coroutine functions
Fetchers == {"fetch_page", "fetch_market_insights", "fetch_api_data"}

\* what a request meets: a good response, a timeout, a connection reset,
\* an HTTP 5xx status
Events == {"ok", "timeout", "reset", "http_5xx"}

\* NETWORK_EXCEPTIONS holds httpx.RequestError and its subclasses (timeouts
\* and connection errors); httpx.HTTPStatusError, raised by
\* raise_for_status, is not among them
InNetworkExceptions(e) == e \in {"timeout", "reset"}

\* what one invocation of a fetcher does as its wrapper sees it.
\* fetch_page re-raises what the request raised; fetch_market_insights and
\* fetch_api_data catch every exception inside and return None / []
Surfaces(f, e) ==
  IF e = "ok" THEN "ok"
  ELSE IF f = "fetch_page"
       THEN IF InNetworkExceptions(e) THEN "declared" ELSE "undeclared"
       ELSE "ok"

\* @retry_with_backoff(retries=3, initial_delay=2, exceptions=NETWORK_EXCEPTIONS)
FetchRetries == 3
FetchArgs == <<2, 10, 2>>

RetryOff ==
  /\ retries = 0 /\ initial_delay = 0 /\ max_delay = 0 /\ backoff_factor = 0
  /\ script = <<>>
  /\ fetcher = "none" /\ events = <<>>
  /\ async_wrapper = Frame("off")
  /\ sync_wrapper = Frame("off")

\* a decorated function is about to be called through each wrapper
RetryInit ==
  /\ \/ /\ fetcher = "none"
        /\ events = <<>>
        /\ retries \in -1..MaxRetries
        /\ \E args \in BackoffArgs :
             /\ initial_delay = args[1]
             /\ max_delay = args[2]
             /\ backoff_factor = args[3]
        /\ script \in [1..(retries + 1) -> Outcomes]
     \/ /\ fetcher \in Fetchers
        /\ retries = FetchRetries
        /\ initial_delay = FetchArgs[1]
        /\ max_delay = FetchArgs[2]
        /\ backoff_factor = FetchArgs[3]
        /\ events \in [1..(FetchRetries + 1) -> Events]
        /\ script = [k \in 1..(FetchRetries + 1) |-> Surfaces(fetcher, events[k])]
  /\ async_wrapper = Frame("entry")
  /\ sync_wrapper = Frame("entry")

\* the wrapper is entered: delay = initial_delay, and the for loop takes
\* its first value; an empty range falls through to the implicit return
Enter(w) ==
  IF 0 \in range(retries + 1)
  THEN [w EXCEPT !.pc = "call", !.attempt = 0, !.delay = initial_delay]
  ELSE [w EXCEPT !.pc = "returned", !.delay = initial_delay, !.result = None]

\* the test that ends the retries with the error re-raised, made with the
\* retry budget one short
async_last_attempt_early(a) == a = retries - 1

\* the last-attempt test never true: the error is not re-raised
async_last_attempt_never(a) == FALSE

\* async_wrapper: if attempt == retries
async_last_attempt(a) == a = retries

\* except Exception: every error of the function is caught
async_caught_any(outcome) == outcome # "ok"

\* async_wrapper: except exceptions as e
async_caught(outcome) == outcome = "declared"

\* async_wrapper is called
AsyncEnter ==
  /\ async_wrapper.pc = "entry"
  /\ async_wrapper' = Enter(async_wrapper)
  /\ UNCHANGED <<retries, initial_delay, max_delay, backoff_factor, script,
                 fetcher, events,
                 sync_wrapper>>
  /\ UNCHANGED otherThanRetry

\* async_wrapper, the try of one iteration: return await func(...), the
\* except clause for the declared errors (re-raise on the last attempt, else
\* request asyncio.sleep(delay)); any other error propagates
AsyncCall ==
  /\ async_wrapper.pc = "call"
  /\ LET w == async_wrapper
         k == w.attempt + 1
     IN async_wrapper' =
          IF script[k] = "ok"
          THEN [w EXCEPT !.calls = w.calls + 1, !.pc = "returned",
                         !.result = [kind |-> "value", of |-> k]]
          ELSE IF async_caught(script[k]) /\ ~async_last_attempt(w.attempt)
          THEN [w EXCEPT !.calls = w.calls + 1, !.pc = "wait",
                         !.waits = Append(w.waits, w.delay)]
          ELSE [w EXCEPT !.calls = w.calls + 1, !.pc = "raised",
                         !.result = [kind |-> "error", of |-> k]]
  /\ UNCHANGED <<retries, initial_delay, max_delay, backoff_factor, script,
                 fetcher, events,
                 sync_wrapper>>
  /\ UNCHANGED otherThanRetry

\* async_wrapper: asyncio.sleep returns, delay = min(delay * backoff_factor,
\* max_delay), and the loop takes its next value or runs out
AsyncSleepDone ==
  /\ async_wrapper.pc = "wait"
  /\ LET w == async_wrapper
     IN async_wrapper' =
          IF w.attempt + 1 \in range(retries + 1)
          THEN [w EXCEPT !.attempt = w.attempt + 1, !.pc = "call",
                         !.delay = Min(w.delay * backoff_factor, max_delay)]
          ELSE [w EXCEPT !.pc = "returned", !.result = None,
                         !.delay = Min(w.delay * backoff_factor, max_delay)]
  /\ UNCHANGED <<retries, initial_delay, max_delay, backoff_factor, script,
                 fetcher, events,
                 sync_wrapper>>
  /\ UNCHANGED otherThanRetry

\* sync_wrapper: if attempt == retries
sync_last_attempt(a) == a = retries

\* sync_wrapper catching every error of the function
sync_caught_any(outcome) == outcome # "ok"

\* sync_wrapper: except exceptions as e
sync_caught(outcome) == outcome = "declared"

\* sync_wrapper is called
SyncEnter ==
  /\ sync_wrapper.pc = "entry"
  /\ sync_wrapper' = Enter(sync_wrapper)
  /\ UNCHANGED <<retries, initial_delay, max_delay, backoff_factor, script,
                 fetcher, events,
                 async_wrapper>>
  /\ UNCHANGED otherThanRetry

\* sync_wrapper, the try of one iteration: return func(...), the except
\* clause for the declared errors (re-raise on the last attempt, else
\* request time.sleep(delay)); any other error propagates
SyncCall ==
  /\ sync_wrapper.pc = "call"
  /\ LET w == sync_wrapper
         k == w.attempt + 1
     IN sync_wrapper' =
          IF script[k] = "ok"
          THEN [w EXCEPT !.calls = w.calls + 1, !.pc = "returned",
                         !.result = [kind |-> "value", of |-> k]]
          ELSE IF sync_caught(script[k]) /\ ~sync_last_attempt(w.attempt)
          THEN [w EXCEPT !.calls = w.calls + 1, !.pc = "wait",
                         !.waits = Append(w.waits, w.delay)]
          ELSE [w EXCEPT !.calls = w.calls + 1, !.pc = "raised",
                         !.result = [kind |-> "error", of |-> k]]
  /\ UNCHANGED <<retries, initial_delay, max_delay, backoff_factor, script,
                 fetcher, events,
                 async_wrapper>>
  /\ UNCHANGED otherThanRetry

\* sync_wrapper: time.sleep returns, delay = min(delay * backoff_factor,
\* max_delay), and the loop takes its next value or runs out
SyncSleepDone ==
  /\ sync_wrapper.pc = "wait"
  /\ LET w == sync_wrapper
     IN sync_wrapper' =
          IF w.attempt + 1 \in range(retries + 1)
          THEN [w EXCEPT !.attempt = w.attempt + 1, !.pc = "call",
                         !.delay = Min(w.delay * backoff_factor, max_delay)]
          ELSE [w EXCEPT !.pc = "returned", !.result = None,
                         !.delay = Min(w.delay * backoff_factor, max_delay)]
  /\ UNCHANGED <<retries, initial_delay, max_delay, backoff_factor, script,
                 fetcher, events,
                 async_wrapper>>
  /\ UNCHANGED otherThanRetry

RetryNext ==
  \/ AsyncEnter
  \/ AsyncCall
  \/ AsyncSleepDone
  \/ SyncEnter
  \/ SyncCall
  \/ SyncSleepDone

(***************************************************************************)
(* services/scheduler.py: UnifiedScheduler.start registers the enabled     *)
(* jobs with the AsyncIOScheduler (IntervalTrigger / CronTrigger, no        *)
(* max_instances, coalesce or misfire_grace_time argument, so the           *)
(* scheduler's defaults apply) and starts it on the event loop of main.     *)
(* Each firing of a job is a task on that loop; a job run is followed      *)
(* through the awaits it is suspended in.  The clock ticks in intervals'   *)
(* units; a tick is far longer than the misfire grace time.                *)
(***************************************************************************)
JobIds == {"market_insights", "capital_market", "global_markets"}
IntervalJobs == {"market_insights", "capital_market"}
\* MARKET_INSIGHTS_INTERVAL_MINUTES / CAPITAL_MARKET_INTERVAL_MINUTES tried
Intervals == {1, 2}

\* the awaits of a job run: the fetch, a send, a retry wait (asyncio.sleep
\* of async_wrapper or of send_news) and the inter-message delay
Waits == {"fetch", "send", "retry_wait", "delay"}

\* the await a run can be suspended in after the one it is in
NextWaits(kind) ==
  CASE kind = "fetch" -> {"retry_wait", "send"}
    [] kind = "retry_wait" -> {"fetch", "send"}
    [] kind = "send" -> {"retry_wait", "delay", "send"}
    [] kind = "delay" -> {"send"}

\* a retry wait that sleeps on the loop's thread (time.sleep)
BlockingRetryWait(kind) == kind = "retry_wait"

\* whether the event loop's thread is held while a run is in this wait:
\* every wait of the job bodies is an await (the decorated fetchers are
\* coroutine functions, so their retry wait is asyncio.sleep)
Blocking(kind) == FALSE

LoopBlocked ==
  \E k \in JobIds : instances[k] > 0 /\ Blocking(waiting[k])

\* add_job with max_instances = 2
MaxInstancesTwo(j) == 2

\* add_job is called without max_instances: one instance per job
MaxInstances(j) == 1

\* a CronTrigger that matches every tick
NextFireEveryTick(j, t) ==
  IF j \in IntervalJobs
  THEN ((t \div interval[j]) + 1) * interval[j]
  ELSE t + 1

\* the trigger's next fire time after t: IntervalTrigger fires every
\* interval from the start (tick 0) on, CronTrigger at daily_time of each day
NextFire(j, t) ==
  IF j \in IntervalJobs
  THEN ((t \div interval[j]) + 1) * interval[j]
  ELSE LET d == t - (t % DayLen) + daily_time
       IN IF d > t THEN d ELSE d + DayLen

SchedOff ==
  /\ sched = "off" /\ now = 0
  /\ enabled = [j \in JobIds |-> FALSE]
  /\ interval = [j \in IntervalJobs |-> 1]
  /\ daily_time = 0
  /\ next_run = [j \in JobIds |-> -1]
  /\ instances = [j \in JobIds |-> 0]
  /\ waiting = [j \in JobIds |-> "none"]
  /\ fired = [j \in JobIds |-> [what |-> "none", at |-> 0]]

\* UnifiedScheduler.__init__: the scheduler exists, nothing is registered
SchedInit ==
  /\ sched = "new" /\ now = 0
  /\ enabled \in [JobIds -> BOOLEAN]
  /\ interval \in [IntervalJobs -> Intervals]
  /\ daily_time \in 0..(DayLen - 1)
  /\ next_run = [j \in JobIds |-> -1]
  /\ instances = [j \in JobIds |-> 0]
  /\ waiting = [j \in JobIds |-> "none"]
  /\ fired = [j \in JobIds |-> [what |-> "none", at |-> 0]]

\* start adding every job, whatever its flag
RegistersAll(j) == TRUE

\* start: "if settings.ENABLE_...:" around the add_job of each job
Registers(j) == enabled[j]

\* UnifiedScheduler.start: add_job for each enabled job, scheduler.start()
SchedStart ==
  /\ sched = "new"
  /\ sched' = "running"
  /\ next_run' = [j \in JobIds |-> IF Registers(j) THEN NextFire(j, now) ELSE -1]
  /\ UNCHANGED <<now, enabled, interval, daily_time, instances, waiting, fired>>
  /\ UNCHANGED otherThanSched

\* the scheduler's wakeup for a due job.  Run times that are late by more
\* than the grace time are missed; a run time that is due now is submitted
\* unless the job has max_instances runs in progress, and then it is
\* skipped.  Either way next_run_time moves to the next fire time: nothing
\* is kept for later.
Fire(j) ==
  /\ sched = "running" /\ next_run[j] >= 0
  /\ next_run[j] <= now
  /\ ~LoopBlocked
  /\ LET due_now == NextFire(j, now - 1) = now
     IN IF ~due_now
        THEN /\ fired' = [fired EXCEPT ![j] = [what |-> "missed", at |-> now]]
             /\ UNCHANGED <<instances, waiting>>
        ELSE IF instances[j] < MaxInstances(j)
        THEN /\ fired' = [fired EXCEPT ![j] = [what |-> "ran", at |-> now]]
             /\ instances' = [instances EXCEPT ![j] = instances[j] + 1]
             /\ waiting' = [waiting EXCEPT ![j] = "fetch"]
        ELSE /\ fired' = [fired EXCEPT ![j] = [what |-> "skipped", at |-> now]]
             /\ UNCHANGED <<instances, waiting>>
  /\ next_run' = [next_run EXCEPT ![j] = NextFire(j, now)]
  /\ UNCHANGED <<sched, now, enabled, interval, daily_time>>
  /\ UNCHANGED otherThanSched

\* a running job moves from one await to the next
JobStep(j, kind) ==
  /\ instances[j] > 0
  /\ waiting[j] \in Waits
  /\ kind \in NextWaits(waiting[j])
  /\ kind # waiting[j]
  /\ waiting' = [waiting EXCEPT ![j] = kind]
  /\ UNCHANGED <<sched, now, enabled, interval, daily_time, next_run,
                 instances, fired>>
  /\ UNCHANGED otherThanSched

\* job_global_markets without its try block
CaughtIntervalJobsOnly(j) == j \in IntervalJobs

\* whether an Exception raised in the body of job function j is caught by
\* the function: the whole body of each of the three is the try block of
\* "except Exception as e: logger.error(...)"
Caught(j) == TRUE

\* an Exception is raised in the body of a running job function, at the
\* await it is suspended in.  Caught, the function logs it in its except
\* clause and returns; not caught, it leaves the function, the executor
\* of the scheduler logs it and the run is over.
Raise(j) ==
  /\ instances[j] > 0
  /\ waiting[j] \in Waits
  /\ IF Caught(j)
     THEN /\ waiting' = [waiting EXCEPT ![j] = "except"]
          /\ UNCHANGED <<instances, fired>>
     ELSE /\ instances' = [instances EXCEPT ![j] = instances[j] - 1]
          /\ waiting' = [waiting EXCEPT ![j] =
                           IF instances[j] = 1 THEN "none" ELSE "fetch"]
          /\ fired' = [fired EXCEPT ![j] = [what |-> "raised", at |-> now]]
  /\ UNCHANGED <<sched, now, enabled, interval, daily_time, next_run>>
  /\ UNCHANGED otherThanSched

\* a job function returns (after the fetch when nothing is new, after the
\* last send or the delay that follows it, after its except clause)
Finish(j) ==
  /\ instances[j] > 0
  /\ waiting[j] \in {"fetch", "send", "delay", "except"}
  /\ instances' = [instances EXCEPT ![j] = instances[j] - 1]
  /\ waiting' = [waiting EXCEPT ![j] = IF instances[j] = 1 THEN "none" ELSE "fetch"]
  /\ UNCHANGED <<sched, now, enabled, interval, daily_time, next_run, fired>>
  /\ UNCHANGED otherThanSched

\* time passes, counted from the scheduler's start.  The loop's timer wakes the scheduler at next_run_time, so
\* while the loop's thread is free no due job is passed over.
Tick ==
  /\ now < MaxTime
  /\ sched # "new"
  /\ \/ LoopBlocked
     \/ sched = "stopped"
     \/ \A j \in JobIds : next_run[j] >= 0 => next_run[j] > now
  /\ now' = now + 1
  /\ UNCHANGED <<sched, enabled, interval, daily_time, next_run, instances,
                 waiting, fired>>
  /\ UNCHANGED otherThanSched

\* UnifiedScheduler.stop: shutdown(wait=False); no further firing
SchedStop ==
  /\ sched = "running"
  /\ sched' = "stopped"
  /\ UNCHANGED <<now, enabled, interval, daily_time, next_run, instances,
                 waiting, fired>>
  /\ UNCHANGED otherThanSched

SchedNext ==
  \/ SchedStart
  \/ \E j \in JobIds : Fire(j)
  \/ \E j \in JobIds, kind \in Waits : JobStep(j, kind)
  \/ \E j \in JobIds : Finish(j)
  \/ \E j \in JobIds : Raise(j)
  \/ Tick
  \/ SchedStop

(***************************************************************************)
(* services/database.py, row by row.  A row of either table: the           *)
(* fingerprint (news_id / insight_id, UNIQUE NOT NULL), the other columns  *)
(* the caller passes (attrs) and sent_at (DEFAULT CURRENT_TIMESTAMP).  The *)
(* job cycles above see a table through the set of its fingerprints.       *)
(***************************************************************************)
Attrs == {"a", "b"}
Tables == {"capital_market_news", "notifications"}

Keys(table) == {row.key : row \in table}

\* the insert followed by a purge of the rows older than the new one
InsertRowAndPurge(table, row, raises) ==
  IF raises THEN table
  ELSE IF row.key \in Keys(table) THEN table
  ELSE {r \in table : r.sent_at >= row.sent_at} \cup {row}

\* INSERT OR REPLACE INTO ...: an existing row gives way to the new one
InsertOrReplaceRow(table, row, raises) ==
  IF raises THEN table
  ELSE {r \in table : r.key # row.key} \cup {row}

\* INSERT INTO ... VALUES (...) and conn.commit(): the UNIQUE constraint
\* raises IntegrityError for an existing fingerprint; any error leaves the
\* table as it was
InsertRow(table, row, raises) ==
  IF raises THEN table
  ELSE IF row.key \in Keys(table) THEN table
  ELSE table \cup {row}

\* what add_sent_news / add_notification return
AddReturns(table, key, raises) == ~raises /\ key \notin Keys(table)

DbOff ==
  /\ capital_market_news = {} /\ notifications = {}
  /\ db_clock = 0 /\ db_up = FALSE /\ boots = 0
  /\ returned = [op |-> "none"]
  /\ acked = {}

\* UnifiedDatabase.__init__ on a new file: both tables are created empty
DbInit ==
  /\ capital_market_news = {} /\ notifications = {}
  /\ db_clock = 0 /\ db_up = TRUE /\ boots = 0
  /\ returned = [op |-> "none"]
  /\ acked = {}

\* add_sent_news(news_id, title, url, timestamp)
AddSentNews(news_id, attrs, raises) ==
  /\ db_up
  /\ LET row == [key |-> news_id, attrs |-> attrs, sent_at |-> db_clock]
         ret == AddReturns(capital_market_news, news_id, raises)
     IN /\ capital_market_news' = InsertRow(capital_market_news, row, raises)
        /\ returned' = [op |-> "add_sent_news", key |-> news_id,
                        attrs |-> attrs, raised |-> raises, ret |-> ret]
        /\ acked' = IF ret THEN acked \cup {<<"capital_market_news", news_id>>}
                    ELSE acked
  /\ UNCHANGED <<notifications, db_clock, db_up, boots>>
  /\ UNCHANGED otherThanDb

\* add_notification(insight_id, stock_name, label, notification)
AddNotification(insight_id, attrs, raises) ==
  /\ db_up
  /\ LET row == [key |-> insight_id, attrs |-> attrs, sent_at |-> db_clock]
         ret == AddReturns(notifications, insight_id, raises)
     IN /\ notifications' = InsertRow(notifications, row, raises)
        /\ returned' = [op |-> "add_notification", key |-> insight_id,
                        attrs |-> attrs, raised |-> raises, ret |-> ret]
        /\ acked' = IF ret THEN acked \cup {<<"notifications", insight_id>>}
                    ELSE acked
  /\ UNCHANGED <<capital_market_news, db_clock, db_up, boots>>
  /\ UNCHANGED otherThanDb

\* is_news_sent(news_id)
IsNewsSent(news_id, raises) ==
  /\ db_up
  /\ returned' = [op |-> "is_news_sent", key |-> news_id, raised |-> raises,
                  ret |-> is_news_sent(Keys(capital_market_news), news_id, raises)]
  /\ UNCHANGED <<capital_market_news, notifications, db_clock, db_up, boots,
                 acked>>
  /\ UNCHANGED otherThanDb

\* get_all_insight_ids()
GetAllInsightIds(raises) ==
  /\ db_up
  /\ returned' = [op |-> "get_all_insight_ids", raised |-> raises,
                  ret |-> get_all_insight_ids(Keys(notifications), raises)]
  /\ UNCHANGED <<capital_market_news, notifications, db_clock, db_up, boots,
                 acked>>
  /\ UNCHANGED otherThanDb

\* CURRENT_TIMESTAMP moves on
DbTick ==
  /\ db_clock < MaxClock
  /\ db_clock' = db_clock + 1
  /\ UNCHANGED <<capital_market_news, notifications, db_up, boots, returned,
                 acked>>
  /\ UNCHANGED otherThanDb

\* the process dies between two calls: committed rows are in the file
DbCrash ==
  /\ db_up
  /\ db_up' = FALSE
  /\ returned' = [op |-> "none"]
  /\ UNCHANGED <<capital_market_news, notifications, db_clock, boots, acked>>
  /\ UNCHANGED otherThanDb

\* a new process: UnifiedDatabase.__init__ runs _init_tables on the file
DbRestart ==
  /\ ~db_up /\ boots < MaxBoots
  /\ db_up' = TRUE
  /\ boots' = boots + 1
  /\ capital_market_news' = InitTables(capital_market_news)
  /\ notifications' = InitTables(notifications)
  /\ returned' = [op |-> "none"]
  /\ UNCHANGED <<db_clock, acked>>
  /\ UNCHANGED otherThanDb

DbNext ==
  \/ \E news_id \in NewsIds, attrs \in Attrs, raises \in BOOLEAN :
       AddSentNews(news_id, attrs, raises)
  \/ \E insight_id \in InsightIds, attrs \in Attrs, raises \in BOOLEAN :
       AddNotification(insight_id, attrs, raises)
  \/ \E news_id \in NewsIds, raises \in BOOLEAN : IsNewsSent(news_id, raises)
  \/ \E raises \in BOOLEAN : GetAllInsightIds(raises)
  \/ DbTick
  \/ DbCrash
  \/ DbRestart

(***************************************************************************)
(* market_insights/data_processor.py: the recency check.  A string is a    *)
(* sequence of tokens: a date as "%d %b, %Y" writes it, a single space, a  *)
(* time of day, or other text.  news_date is what the API item's timeStamp *)
(* held: a string (str = TRUE, "" when the key is absent) or a value of    *)
(* another JSON type.                                                      *)
(***************************************************************************)
DateTokens == {"14 Dec, 2025", "12 Dec, 2025"}
Tokens == DateTokens \cup {" ", "3:23 PM (IST)", "n/a"}

\* s.split('  ')[0]: the part before the first double space
RECURSIVE BeforeDoubleSpace(_)
BeforeDoubleSpace(s) ==
  IF s = <<>> THEN <<>>
  ELSE IF Len(s) >= 2 /\ s[1] = " " /\ s[2] = " " THEN <<>>
  ELSE <<Head(s)>> \o BeforeDoubleSpace(Tail(s))

\* s.strip()
RECURSIVE strip(_)
strip(s) ==
  IF s = <<>> THEN <<>>
  ELSE IF Head(s) = " " THEN strip(Tail(s))
  ELSE IF s[Len(s)] = " " THEN strip(SubSeq(s, 1, Len(s) - 1))
  ELSE s

\* DataProcessor._parse_news_date: the date part of a non-empty string;
\* None (here the empty string, falsy like it) for an empty string and
\* when split raises on a value that is not a string
_parse_news_date(timestamp_str) ==
  IF ~timestamp_str.str THEN <<>>
  ELSE IF timestamp_str.text # <<>>
       THEN strip(BeforeDoubleSpace(timestamp_str.text))
       ELSE <<>>

\* DataProcessor._is_today_ist: string comparison of the parsed date with
\* today's; True when nothing was parsed
_is_today_ist(news_date_str, today) ==
  LET parsed_date == _parse_news_date(news_date_str)
  IN IF parsed_date # <<>> THEN parsed_date = <<today>> ELSE TRUE

\* filter_new_insights, the recency test of one insight:
\* if insight.news_date: if not self._is_today_ist(insight.news_date): continue
RecencyKeeps(date, today) ==
  IF ~date.str \/ date.text # <<>>
  THEN _is_today_ist(date, today)
  ELSE TRUE

DateOff ==
  /\ today_str = "" /\ news_date = [str |-> TRUE, text |-> <<>>]
  /\ kept = "off"

\* an insight comes out of extract_insights on some day
DateInit ==
  /\ today_str \in DateTokens
  /\ \/ news_date \in [str : {TRUE}, text : SeqUpTo(Tokens, MaxDateLen)]
     \/ news_date = [str |-> FALSE, text |-> <<>>]
  /\ kept = "pending"

\* filter_new_insights reaches the insight
CheckRecency ==
  /\ kept = "pending"
  /\ kept' = IF RecencyKeeps(news_date, today_str) THEN "kept" ELSE "dropped"
  /\ UNCHANGED <<today_str, news_date>>
  /\ UNCHANGED otherThanDate

DateNext == CheckRecency

(***************************************************************************)
(* The send loops of the three jobs, with time.  The jobs run as tasks of  *)
(* one event loop and send to the one channel; a cycle of one job can      *)
(* start while a cycle of another is suspended in a send or a sleep.       *)
(* loop[j].at: "idle", "send" (awaiting a send), "sleep".                  *)
(***************************************************************************)
\* settings.RATE_LIMIT_DELAY, seconds
RATE_LIMIT_DELAY == 3

\* job_capital_market: await asyncio.sleep(2), seconds
cm_sleep == 2

\* since is counted up to the longest pause
Far == RATE_LIMIT_DELAY

Idle == [at |-> "idle", left |-> 0, rem |-> 0]

\* a pause that grows with the number of items still to send
Pause_growing(j, ok, left) ==
  IF j = "capital_market" THEN (IF ok THEN cm_sleep + left ELSE 0)
  ELSE IF j = "market_insights"
       THEN (IF left > 0 THEN RATE_LIMIT_DELAY + left ELSE 0)
  ELSE 0

\* the asyncio.sleep that follows the send of an item, 0 for none; left:
\* the items of the batch after this one.  job_capital_market sleeps 2 s
\* after a send that returned True, send_batch_notifications sleeps
\* rate_limit_delay after every item but the last,
\* send_global_markets_update goes straight to the next image.
Pause(j, ok, left) ==
  IF j = "capital_market" THEN (IF ok THEN cm_sleep ELSE 0)
  ELSE IF j = "market_insights" THEN (IF left > 0 THEN RATE_LIMIT_DELAY ELSE 0)
  ELSE 0

ChanOff ==
  /\ loop = [j \in JobIds |-> Idle]
  /\ since = Far
  /\ flip = 0

\* process start: no job is sending and nothing was sent yet
ChanInit == ChanOff

\* a job function reaches its send loop with n items
StartLoop(j, n) ==
  /\ loop[j].at = "idle"
  /\ loop' = [loop EXCEPT ![j] = [at |-> "send", left |-> n, rem |-> 0]]
  /\ UNCHANGED <<since, flip>>
  /\ UNCHANGED otherThanChan

\* the send of the current item of job j returns, confirmed or not
Transmit(j, ok) ==
  /\ loop[j].at = "send"
  /\ LET left == loop[j].left - 1
         pause == Pause(j, ok, left)
     IN loop' = [loop EXCEPT ![j] =
                   IF pause > 0 THEN [at |-> "sleep", left |-> left, rem |-> pause]
                   ELSE IF left > 0 THEN [at |-> "send", left |-> left, rem |-> 0]
                   ELSE Idle]
  /\ since' = IF ok THEN 0 ELSE since
  /\ flip' = IF ok THEN 1 - flip ELSE flip
  /\ UNCHANGED otherThanChan

\* asyncio.sleep of job j is over: the next item, or the end of the loop
Wake(j) ==
  /\ loop[j].at = "sleep" /\ loop[j].rem = 0
  /\ loop' = [loop EXCEPT ![j] =
                IF loop[j].left > 0 THEN [loop[j] EXCEPT !.at = "send"]
                ELSE Idle]
  /\ UNCHANGED <<since, flip>>
  /\ UNCHANGED otherThanChan

\* a second passes
Second ==
  /\ \E j \in JobIds : loop[j].at # "idle"
  /\ loop' = [j \in JobIds |->
               IF loop[j].rem > 0 THEN [loop[j] EXCEPT !.rem = loop[j].rem - 1]
               ELSE loop[j]]
  /\ since' = Min(since + 1, Far)
  /\ UNCHANGED flip
  /\ UNCHANGED otherThanChan

ChanNext ==
  \/ \E j \in JobIds, n \in 1..MaxItems : StartLoop(j, n)
  \/ \E j \in JobIds, ok \in BOOLEAN : Transmit(j, ok)
  \/ \E j \in JobIds : Wake(j)
  \/ Second

(***************************************************************************)
(* The item loops of the parsers.  A row or item is "ok" (an article or    *)
(* insight is built from it), "raises" (building it raises) or, for a      *)
(* table row, "none" (_parse_news_row returns None: no content cell, no    *)
(* link or no title).                                                      *)
(***************************************************************************)
Parsers == {"parse_news", "extract_insights"}

RowIds == {"r1", "r2"}

RowKinds(p) ==
  IF p = "parse_news" THEN {"ok", "raises", "none"} ELSE {"ok", "raises"}

Rows(p) == [kind : RowKinds(p), id : RowIds]

\* an item that raises ends the loop with nothing extracted
on_item_error_discard(items) == <<>>

\* except Exception: continue -- the list built so far stays
on_item_error(items) == items

\* one pass of the loop body: parse_news appends the article of the row if
\* _parse_news_row returned one; extract_insights appends the insight built
\* from the item; an exception skips the row or item
parse_item(items, row) ==
  CASE row.kind = "ok" -> Append(items, row.id)
    [] row.kind = "none" -> items
    [] row.kind = "raises" -> on_item_error(items)

ParseOff ==
  /\ parser = "none" /\ rows = <<>> /\ row_idx = 0 /\ parsed = <<>>

\* the loop is entered with an empty list
ParseInit ==
  /\ parser \in Parsers
  /\ rows \in SeqUpTo(Rows(parser), MaxRows)
  /\ row_idx = 1
  /\ parsed = <<>>

\* for idx, row in enumerate(rows) / for idx, item in enumerate(market_insights, 1)
ParseItem ==
  /\ parser \in Parsers
  /\ row_idx <= Len(rows)
  /\ parsed' = parse_item(parsed, rows[row_idx])
  /\ row_idx' = row_idx + 1
  /\ UNCHANGED <<parser, rows>>
  /\ UNCHANGED otherThanParse

ParseNext == ParseItem

(***************************************************************************)
(* Fingerprints.  Strings are sequences of characters.  Three places       *)
(* build an item and its id: _parse_news_row (a row of the news table),    *)
(* _parse_generic_fallback (a link of the page) and MarketInsight (an item *)
(* of the API response).  Each is given the wall clock too, since each     *)
(* puts datetime.now() into the item it builds.                            *)
(***************************************************************************)
\* str(datetime.now()): a string that differs from one instant to the next
strftime(t) == <<ToString(t)>>

\* f"{a}_{b}"
Joined(a, b) == a \o <<"_">> \o b

\* s[:n]
Prefix(s, n) == SubSeq(s, 1, IF Len(s) < n THEN Len(s) ELSE n)

\* hashlib.md5(bytes).hexdigest(): a function of the bytes and nothing else;
\* hex is the number of hexadecimal digits kept
md5(bytes) == [digest_of |-> bytes, hex |-> 32]

\* hexdigest()[:16]
First16(digest) == [digest EXCEPT !.hex = 16]

base_url == <<"h">>

\* _parse_news_row: the id is made of the title and of the timestamp text
\* of the row; NewsArticle.__init__ stamps scraped_at
parse_news_row(title, url, timestamp, t) ==
  [title |-> title, url |-> url, timestamp |-> timestamp,
   news_id |-> First16(md5(Joined(title, timestamp))),
   scraped_at |-> strftime(t)]

full_url(href) == IF Len(href) > 0 /\ Head(href) = "h" THEN href
                  ELSE base_url \o href

\* the id made as the row parser makes it, of the title and the timestamp,
\* which here is the time of the call
parse_generic_fallback_stamped(title, href, t) ==
  [title |-> title, url |-> full_url(href), timestamp |-> strftime(t),
   news_id |-> md5(Joined(title, strftime(t))),
   scraped_at |-> strftime(t)]

\* _parse_generic_fallback: the timestamp is the time of the call, the id
\* is made of the full URL alone
parse_generic_fallback(title, href, t) ==
  [title |-> title, url |-> full_url(href), timestamp |-> strftime(t),
   news_id |-> md5(full_url(href)),
   scraped_at |-> strftime(t)]

\* MarketInsight._generate_id
generate_id(stock_name, label, notification) ==
  Joined(stock_name, Joined(label, Prefix(notification, IdPrefix)))

\* MarketInsight.__init__ as extract_insights calls it: no insight_id and
\* no timestamp are passed
MarketInsight(stock_name, label, notification, t) ==
  [stock_name |-> stock_name, label |-> label,
   notification |-> notification,
   insight_id |-> generate_id(stock_name, label, notification),
   timestamp |-> strftime(t)]

\* what is parsed: rows (title, url, timestamp text), links (title, href),
\* API items (stock, label, notification)
RawRows == [kind : {"row"}, title : {<<"a">>, <<"a", "_">>},
            url : {<<"u">>, <<"v">>}, timestamp : {<<>>, <<"9">>}]
RawLinks == [kind : {"link"}, title : {<<"a">>, <<"b">>},
             href : {<<"h", "/", "n">>, <<"/", "n">>, <<"/", "m">>}]
RawInsights == [kind : {"insight"}, stock_name : {<<"s">>},
                label : {<<"l">>},
                notification : {<<"n">>, <<"n", "m">>, <<"n", "m", "x">>,
                                <<"n", "m", "y">>, <<"n", "k", "x">>}]
Raws == RawRows \cup RawLinks \cup RawInsights

\* the fields an item's id is derived from
IdentityOf(r) ==
  CASE r.kind = "row" -> <<"row", r.title, r.timestamp>>
    [] r.kind = "link" -> <<"link", full_url(r.href)>>
    [] r.kind = "insight" -> <<"insight", r.stock_name, r.label,
                               r.notification>>

\* the id of the item built from r at time t
FingerprintOf(r, t) ==
  CASE r.kind = "row" ->
         parse_news_row(r.title, r.url, r.timestamp, t).news_id
    [] r.kind = "link" -> parse_generic_fallback(r.title, r.href, t).news_id
    [] r.kind = "insight" ->
         MarketInsight(r.stock_name, r.label, r.notification, t).insight_id

FpOff ==
  /\ raw = [kind |-> "none"]
  /\ env = [clock |-> 0, calls |-> 0, run |-> 0, stored |-> {}]
  /\ made = {}

FpInit ==
  /\ raw \in Raws
  /\ env = [clock |-> 0, calls |-> 0, run |-> 1, stored |-> {}]
  /\ made = {}

\* one item is parsed: its id is computed
FpParse ==
  /\ env.calls < MaxCalls
  /\ made' = made \cup {<<IdentityOf(raw), FingerprintOf(raw, env.clock)>>}
  /\ env' = [env EXCEPT !.calls = @ + 1]
  /\ UNCHANGED raw
  /\ UNCHANGED otherThanFp

\* the source shows another item of the same kind
FpNextRaw ==
  /\ \E r \in Raws : r.kind = raw.kind /\ r # raw /\ raw' = r
  /\ UNCHANGED <<env, made>>
  /\ UNCHANGED otherThanFp

\* time passes
FpTick ==
  /\ env.clock < MaxNow
  /\ env' = [env EXCEPT !.clock = @ + 1]
  /\ UNCHANGED <<raw, made>>
  /\ UNCHANGED otherThanFp

\* a fingerprint that was computed is committed to the Dedup Store
FpCommit ==
  /\ \E p \in made : p[2] \notin env.stored
                     /\ env' = [env EXCEPT !.stored = @ \cup {p[2]}]
  /\ UNCHANGED <<raw, made>>
  /\ UNCHANGED otherThanFp

\* the process is started again: the store is kept
FpRestart ==
  /\ env.run < MaxBoots
  /\ env' = [env EXCEPT !.run = @ + 1, !.calls = 0]
  /\ UNCHANGED <<raw, made>>
  /\ UNCHANGED otherThanFp

FpNext == FpParse \/ FpNextRaw \/ FpTick \/ FpCommit \/ FpRestart

(***************************************************************************)
(* job_capital_market run cycle after cycle by its interval trigger on a   *)
(* page that does not change: every scrape returns the same listing and    *)
(* every send of an article ends the same way.  The steps are those of the *)
(* job cycle above, with no storage error.                                 *)
(***************************************************************************)
ListedIds == {"n1", "n2", "n3"}
Listed == [id : ListedIds, keep : BOOLEAN]
Fates == {"ok", "transient"}

SrcOff ==
  /\ source = <<>>
  /\ fate = <<>>

\* the page lists different articles, each with a fingerprint of its own
SrcInit ==
  /\ source \in {l \in SeqUpTo(Listed, MaxFetch) :
                   Cardinality(IdsOf(l)) = Len(l)}
  /\ fate \in [ListedIds -> Fates]

\* articles = await self.cm_scraper.scrape() on the unchanged page
SrcScrape == CM_Scrape(source, FALSE, {})

\* success = await self.cm_handler.send_news(article)
SrcSend == pc = "send" /\ CM_SendAttempt(fate[batch[idx].id])

\* self.cm_tracker.mark_as_sent(article)
SrcMarkAsSent == CM_MarkAsSent(FALSE)

SrcNext ==
  \/ JobStart
  \/ SrcScrape
  \/ Dispatch
  \/ SrcSend
  \/ SrcMarkAsSent
  \/ CM_SleepDone
  \/ Return

(***************************************************************************)
(* services/database.py: the connection of each operation.  The four       *)
(* operations are plain functions with no await: each is one step, and     *)
(* other jobs run only between steps.  Each does                           *)
(*     try: conn = self.get_connection(); ...; conn.close(); return ...    *)
(*     except ...: return False / set()                                    *)
(* so conn.close() is reached on the success path only.  A connection that *)
(* was not closed is closed when the interpreter frees the object: at the  *)
(* return, where the frame's reference is the last one and objects are     *)
(* freed by reference counting, or later, when a collector finds it.  An   *)
(* INSERT that raised leaves its transaction open, and with it the write   *)
(* lock, until the connection is closed.  sqlite3.connect(timeout=10.0): a *)
(* writer that finds the write lock taken waits 10 s, then raises          *)
(* OperationalError.                                                       *)
(***************************************************************************)
ConnFaults == {"none", "connect", "execute", "commit"}
ConnIds == 1..MaxConns

WriteLocked == \E c \in conns : c.lock

\* get_connection: a new connection object
get_connection(by, op, lock) ==
  [n |-> CHOOSE k \in ConnIds : \A c \in conns : c.n # k,
   by |-> by, op |-> op, lock |-> lock]

\* what stays open when an except clause returns: the connection, unless
\* the interpreter frees it at once
Unclosed(conn, collected) == IF collected THEN {} ELSE {conn}

\* an INSERT ... ; conn.commit(); conn.close(); return True, with the two
\* except clauses returning False
ConnInsert(by, op, table, key, fault, collected) ==
  /\ Cardinality(conns) < MaxConns
  /\ IF fault = "connect"
     THEN /\ db_ret' = [by |-> by, op |-> op, ret |-> "false",
                        why |-> "connect"]
          /\ UNCHANGED conns
     ELSE IF WriteLocked
     THEN /\ db_ret' = [by |-> by, op |-> op, ret |-> "false",
                        why |-> "locked"]
          /\ conns' = conns \cup
                        Unclosed(get_connection(by, op, FALSE), collected)
     ELSE IF key \in table \/ fault \in {"execute", "commit"}
     THEN /\ db_ret' = [by |-> by, op |-> op, ret |-> "false",
                        why |-> IF key \in table THEN "integrity" ELSE fault]
          /\ conns' = conns \cup
                        Unclosed(get_connection(by, op, TRUE), collected)
     ELSE /\ db_ret' = [by |-> by, op |-> op, ret |-> "true", why |-> "ok"]
          /\ UNCHANGED conns

\* the table after the INSERT
ConnInserted(table, key, fault) ==
  IF fault = "none" /\ ~WriteLocked THEN table \cup {key} ELSE table

\* a SELECT; conn.close(); return ..., with the except clause returning
\* False / set().  Readers do not wait for the write lock (WAL).
ConnSelect(by, op, value, failed, fault, collected) ==
  /\ Cardinality(conns) < MaxConns
  /\ IF fault = "connect"
     THEN /\ db_ret' = [by |-> by, op |-> op, ret |-> failed,
                        why |-> "connect"]
          /\ UNCHANGED conns
     ELSE IF fault = "execute"
     THEN /\ db_ret' = [by |-> by, op |-> op, ret |-> failed,
                        why |-> "execute"]
          /\ conns' = conns \cup
                        Unclosed(get_connection(by, op, FALSE), collected)
     ELSE /\ db_ret' = [by |-> by, op |-> op, ret |-> value, why |-> "ok"]
          /\ UNCHANGED conns

Conn_is_news_sent(news_id, fault, collected) ==
  /\ ConnSelect("cm", "is_news_sent",
                IF news_id \in news_rows THEN "true" ELSE "false",
                "false", fault, collected)
  /\ UNCHANGED <<news_rows, insight_rows>>
  /\ UNCHANGED otherThanConn

Conn_add_sent_news(news_id, fault, collected) ==
  /\ ConnInsert("cm", "add_sent_news", news_rows, news_id, fault, collected)
  /\ news_rows' = ConnInserted(news_rows, news_id, fault)
  /\ UNCHANGED insight_rows
  /\ UNCHANGED otherThanConn

Conn_get_all_insight_ids(fault, collected) ==
  /\ ConnSelect("mi", "get_all_insight_ids", "rows", "set()", fault,
                collected)
  /\ UNCHANGED <<news_rows, insight_rows>>
  /\ UNCHANGED otherThanConn

Conn_add_notification(insight_id, fault, collected) ==
  /\ ConnInsert("mi", "add_notification", insight_rows, insight_id, fault,
                collected)
  /\ insight_rows' = ConnInserted(insight_rows, insight_id, fault)
  /\ UNCHANGED news_rows
  /\ UNCHANGED otherThanConn

\* the interpreter frees a connection object nothing refers to: the
\* connection is closed, its open transaction is rolled back
Conn_Finalize ==
  /\ \E c \in conns : conns' = conns \ {c}
  /\ UNCHANGED <<news_rows, insight_rows, db_ret>>
  /\ UNCHANGED otherThanConn

ConnOff ==
  /\ conns = {} /\ news_rows = {} /\ insight_rows = {}
  /\ db_ret = [by |-> "none"]

\* the tables hold what earlier cycles committed
ConnInit ==
  /\ conns = {}
  /\ news_rows \in SUBSET NewsIds
  /\ insight_rows \in SUBSET InsightIds
  /\ db_ret = [by |-> "none"]

ConnNext ==
  \/ \E news_id \in NewsIds, fault \in ConnFaults \ {"commit"},
        collected \in BOOLEAN :
       Conn_is_news_sent(news_id, fault, collected)
  \/ \E news_id \in NewsIds, fault \in ConnFaults, collected \in BOOLEAN :
       Conn_add_sent_news(news_id, fault, collected)
  \/ \E fault \in ConnFaults \ {"commit"}, collected \in BOOLEAN :
       Conn_get_all_insight_ids(fault, collected)
  \/ \E insight_id \in InsightIds, fault \in ConnFaults,
        collected \in BOOLEAN :
       Conn_add_notification(insight_id, fault, collected)
  \/ Conn_Finalize

(***************************************************************************)
(* global_markets/bot_handler.py: send_global_markets_update.              *)
(* fetch_all_market_data gathers four fetch_api_data calls, each of which  *)
(* returns [] on any error; create_market_images skips a category that is  *)
(* disabled, has no data or whose image could not be drawn, and returns {} *)
(* on any error; the loop over image_paths sends one photo per image and   *)
(* catches every error of one image.                                       *)
(***************************************************************************)
Categories == <<"major_indices", "indian_indices", "commodities",
                "currencies">>
CategoryKeys == Range(Categories)

\* sum(len(v) for v in all_data.values())
total_items(data) == Cardinality({c \in CategoryKeys : data[c] > 0})

RECURSIVE ImagesOf(_, _, _)
\* create_market_images: the categories, in their order, that have data and
\* whose image was made (drawn: enabled in the settings and drawn)
ImagesOf(cats, data, drawn) ==
  IF cats = <<>> THEN <<>>
  ELSE IF data[Head(cats)] > 0 /\ Head(cats) \in drawn
       THEN <<Head(cats)>> \o ImagesOf(Tail(cats), data, drawn)
       ELSE ImagesOf(Tail(cats), data, drawn)

\* the loop left at the first image whose send failed
AfterImage_abort(i, n, ok) == IF i < n /\ ok THEN "send" ELSE "report"

\* for category_key, image_path in image_paths.items(): the next image,
\* whatever the send of this one did
AfterImage(i, n, ok) == IF i < n THEN "send" ELSE "report"

GmOff ==
  /\ gm_pc = "off"
  /\ all_data = <<>> /\ image_paths = <<>>
  /\ gm_idx = 0 /\ sent_count = 0 /\ gm_log = <<>> /\ gm_ret = "none"

GmInit ==
  /\ gm_pc = "idle"
  /\ all_data = [c \in CategoryKeys |-> 0]
  /\ image_paths = <<>>
  /\ gm_idx = 0 /\ sent_count = 0 /\ gm_log = <<>> /\ gm_ret = "none"

\* job_global_markets calls send_global_markets_update
GM_Start ==
  /\ gm_pc = "idle"
  /\ gm_pc' = "fetch"
  /\ all_data' = [c \in CategoryKeys |-> 0]
  /\ image_paths' = <<>>
  /\ gm_idx' = 0 /\ sent_count' = 0 /\ gm_log' = <<>> /\ gm_ret' = "none"
  /\ UNCHANGED otherThanGm

\* ensure_data_directories, fetch_all_market_data and the total_items test.
\* raises: ensure_data_directories raises (the outer except returns False)
GM_Fetch(data, raises) ==
  /\ gm_pc = "fetch"
  /\ IF raises
     THEN /\ gm_pc' = "done" /\ gm_ret' = "false"
          /\ UNCHANGED all_data
     ELSE /\ all_data' = data
          /\ IF total_items(data) = 0
             THEN gm_pc' = "done" /\ gm_ret' = "false"
             ELSE gm_pc' = "generate" /\ gm_ret' = "none"
  /\ UNCHANGED <<image_paths, gm_idx, sent_count, gm_log>>
  /\ UNCHANGED otherThanGm

\* create_market_images in the executor and "if not image_paths".
\* raises: create_market_images fails as a whole and returns {}
GM_Generate(drawn, raises) ==
  /\ gm_pc = "generate"
  /\ LET paths == IF raises THEN <<>>
                  ELSE ImagesOf(Categories, all_data, drawn)
     IN /\ image_paths' = paths
        /\ IF paths = <<>>
           THEN gm_pc' = "done" /\ gm_ret' = "false" /\ gm_idx' = 0
           ELSE gm_pc' = "send" /\ gm_ret' = "none" /\ gm_idx' = 1
  /\ sent_count' = 0
  /\ UNCHANGED <<all_data, gm_log>>
  /\ UNCHANGED otherThanGm

\* one pass of the loop: open the image and send_photo.  outcome: "ok",
\* "telegram_error" (send_photo raises a TelegramError) or "error" (any
\* other error, such as an image file that cannot be opened)
GM_SendPhoto(outcome) ==
  /\ gm_pc = "send"
  /\ IF outcome = "ok"
     THEN /\ sent_count' = sent_count + 1
          /\ gm_log' = Append(gm_log, "sent")
     ELSE /\ gm_log' = Append(gm_log, "failed")
          /\ UNCHANGED sent_count
  /\ gm_pc' = AfterImage(gm_idx, Len(image_paths), outcome = "ok")
  /\ gm_idx' = gm_idx + 1
  /\ UNCHANGED <<all_data, image_paths, gm_ret>>
  /\ UNCHANGED otherThanGm

\* if sent_count > 0: return True, else: return False
GM_Report ==
  /\ gm_pc = "report"
  /\ gm_ret' = IF sent_count > 0 THEN "true" ELSE "false"
  /\ gm_pc' = "done"
  /\ UNCHANGED <<all_data, image_paths, gm_idx, sent_count, gm_log>>
  /\ UNCHANGED otherThanGm

\* job_global_markets returns; the daily trigger fires it again
GM_Return ==
  /\ gm_pc = "done"
  /\ gm_pc' = "idle"
  /\ UNCHANGED <<all_data, image_paths, gm_idx, sent_count, gm_log, gm_ret>>
  /\ UNCHANGED otherThanGm

GmOutcomes == {"ok", "telegram_error", "error"}

GmNext ==
  \/ GM_Start
  \/ \E data \in [CategoryKeys -> 0..1], raises \in BOOLEAN :
       GM_Fetch(data, raises)
  \/ \E drawn \in SUBSET CategoryKeys, raises \in BOOLEAN :
       GM_Generate(drawn, raises)
  \/ \E outcome \in GmOutcomes : GM_SendPhoto(outcome)
  \/ GM_Report
  \/ GM_Return

(***************************************************************************)
(* cache_manager.py: CacheManager.  self.cache maps a key to an entry      *)
(* {'date', 'time', 'timestamp'}; perform_scheduled_clear keeps the date   *)
(* of the last clear as a plain string under '_last_clear_date'.  The file *)
(* is rewritten as a whole by _save_cache after every change and read by   *)
(* _load_cache at construction; both catch and log every error.  An entry  *)
(* is modelled by its date; 'time' and 'timestamp' are never read back.    *)
(***************************************************************************)
UpdateKeys == {"global_markets"}
LastClearKey == "_last_clear_date"
CacheKeys == UpdateKeys \cup {LastClearKey}

NoEntry == [kind |-> "absent"]
\* cache_entry = {'date': ..., 'time': ..., 'timestamp': ...}
DictEntry(d) == [kind |-> "dict", date |-> d]
\* a plain string
StrEntry(d) == [kind |-> "str", value |-> d]

EmptyCache == [k \in CacheKeys |-> NoEntry]

\* json.dump(self.cache, f): the members of the object
json_dump(c) == {<<k, c[k]>> : k \in {x \in CacheKeys : c[x] # NoEntry}}

\* json.load(f)
json_load(members) ==
  [k \in CacheKeys |->
     IF \E p \in members : p[1] = k
     THEN (CHOOSE p \in members : p[1] = k)[2]
     ELSE NoEntry]

\* _save_cache: the file after it.  fault "open": open(..., 'w') raises and
\* the file stays as it was; fault "write": the file was truncated and the
\* dump did not complete
SaveFaults == {"none", "open", "write"}
save_cache(c, file, fault) ==
  CASE fault = "none" -> [state |-> "written", members |-> json_dump(c)]
    [] fault = "open" -> file
    [] fault = "write" -> [state |-> "unreadable", members |-> {}]

\* _load_cache: self.cache after it; {} when the file is missing and when
\* reading it raises
load_cache(file, raises) ==
  IF file.state = "written" /\ ~raises THEN json_load(file.members)
  ELSE EmptyCache

\* was_sent_today that takes any entry for one of today
was_sent_today_any_date(key, c, today) ==
  IF c[key] = NoEntry THEN "false" ELSE "true"

\* was_sent_today: False for a key not in the cache, else the entry's
\* 'date' against the current date; cache_entry.get raises AttributeError
\* on an entry that is a string
was_sent_today(key, c, today) ==
  IF c[key] = NoEntry THEN "false"
  ELSE IF c[key].kind = "str" THEN "AttributeError"
  ELSE IF c[key].date = today THEN "true" ELSE "false"

\* should_clear_cache
should_clear_cache(c, clock) ==
  /\ clock.early
  /\ ~(c[LastClearKey].kind = "str" /\ c[LastClearKey].value = clock.date)

NotMarked == [date |-> -1, boot |-> 0]

CacheOff ==
  /\ cache = <<>> /\ cache_file = [state |-> "off"]
  /\ ist = [date |-> 0, early |-> FALSE]
  /\ cache_boots = 0 /\ cache_ret = [op |-> "none"]
  /\ marked = <<>> /\ lost = FALSE

\* CacheManager() in a new data directory
CacheInit ==
  /\ cache = EmptyCache
  /\ cache_file = [state |-> "missing", members |-> {}]
  /\ ist \in [date : {0}, early : BOOLEAN]
  /\ cache_boots = 1
  /\ cache_ret = [op |-> "__init__"]
  /\ marked = [k \in UpdateKeys |-> NotMarked]
  /\ lost = FALSE

Cache_mark_as_sent(key, fault) ==
  /\ cache' = [cache EXCEPT ![key] = DictEntry(ist.date)]
  /\ cache_file' = save_cache(cache', cache_file, fault)
  /\ cache_ret' = [op |-> "mark_as_sent", key |-> key]
  /\ marked' = [marked EXCEPT ![key] = [date |-> ist.date,
                                        boot |-> cache_boots]]
  /\ UNCHANGED <<ist, cache_boots, lost>>
  /\ UNCHANGED otherThanCache

Cache_was_sent_today(key) ==
  /\ cache_ret' = [op |-> "was_sent_today", key |-> key,
                   ret |-> was_sent_today(key, cache, ist.date)]
  /\ UNCHANGED <<cache, cache_file, ist, cache_boots, marked, lost>>
  /\ UNCHANGED otherThanCache

Cache_clear_cache(fault) ==
  /\ cache' = EmptyCache
  /\ cache_file' = save_cache(cache', cache_file, fault)
  /\ cache_ret' = [op |-> "clear_cache"]
  /\ marked' = [k \in UpdateKeys |-> NotMarked]
  /\ lost' = FALSE
  /\ UNCHANGED <<ist, cache_boots>>
  /\ UNCHANGED otherThanCache

Cache_perform_scheduled_clear(fault) ==
  /\ IF should_clear_cache(cache, ist)
     THEN /\ cache' = [EmptyCache EXCEPT ![LastClearKey] = StrEntry(ist.date)]
          /\ cache_file' = save_cache(cache', cache_file, fault)
          /\ marked' = [k \in UpdateKeys |-> NotMarked]
          /\ lost' = FALSE
     ELSE UNCHANGED <<cache, cache_file, marked, lost>>
  /\ cache_ret' = [op |-> "perform_scheduled_clear"]
  /\ UNCHANGED <<ist, cache_boots>>
  /\ UNCHANGED otherThanCache

\* the process is started again: CacheManager.__init__ reloads the file
Cache_Restart(raises) ==
  /\ cache_boots < MaxBoots
  /\ cache_boots' = cache_boots + 1
  /\ cache' = load_cache(cache_file, raises)
  /\ lost' = (lost \/ cache' # cache)
  /\ cache_ret' = [op |-> "__init__"]
  /\ UNCHANGED <<cache_file, ist, marked>>
  /\ UNCHANGED otherThanCache

\* datetime.now(IST) moves on: past 00:05, or past midnight
Cache_Tick ==
  /\ IF ist.early
     THEN ist' = [ist EXCEPT !.early = FALSE]
     ELSE /\ ist.date < MaxIstDate
          /\ ist' = [date |-> ist.date + 1, early |-> TRUE]
  /\ UNCHANGED <<cache, cache_file, cache_boots, cache_ret, marked, lost>>
  /\ UNCHANGED otherThanCache

CacheNext ==
  \/ \E key \in UpdateKeys, fault \in SaveFaults :
       Cache_mark_as_sent(key, fault)
  \/ \E key \in CacheKeys : Cache_was_sent_today(key)
  \/ \E fault \in SaveFaults : Cache_clear_cache(fault)
  \/ \E fault \in SaveFaults : Cache_perform_scheduled_clear(fault)
  \/ \E raises \in BOOLEAN : Cache_Restart(raises)
  \/ Cache_Tick

(***************************************************************************)
(* Specifications: the job cycles, the retry wrappers, the schedule,      *)
(* the store, the recency check, the channel.                              *)
(***************************************************************************)
JobOff == JobInit /\ job = "cm"

Init == JobInit /\ RetryOff /\ SchedOff /\ DbOff /\ DateOff /\ ChanOff
  /\ ParseOff
  /\ FpOff
  /\ SrcOff
  /\ ConnOff
  /\ GmOff
  /\ CacheOff
Next == JobNext
Spec == Init /\ [][Next]_vars

InitRetry == JobOff /\ RetryInit /\ SchedOff /\ DbOff /\ DateOff /\ ChanOff
  /\ ParseOff
  /\ FpOff
  /\ SrcOff
  /\ ConnOff
  /\ GmOff
  /\ CacheOff
SpecRetry == InitRetry /\ [][RetryNext]_vars

InitSched == JobOff /\ RetryOff /\ SchedInit /\ DbOff /\ DateOff /\ ChanOff
  /\ ParseOff
  /\ FpOff
  /\ SrcOff
  /\ ConnOff
  /\ GmOff
  /\ CacheOff
SpecSched == InitSched /\ [][SchedNext]_vars

InitDb == JobOff /\ RetryOff /\ SchedOff /\ DbInit /\ DateOff /\ ChanOff
  /\ ParseOff
  /\ FpOff
  /\ SrcOff
  /\ ConnOff
  /\ GmOff
  /\ CacheOff
SpecDb == InitDb /\ [][DbNext]_vars

InitDate == JobOff /\ RetryOff /\ SchedOff /\ DbOff /\ DateInit /\ ChanOff
  /\ ParseOff
  /\ FpOff
  /\ SrcOff
  /\ ConnOff
  /\ GmOff
  /\ CacheOff
SpecDate == InitDate /\ [][DateNext]_vars

InitChan == JobOff /\ RetryOff /\ SchedOff /\ DbOff /\ DateOff /\ ChanInit
  /\ ParseOff
  /\ FpOff
  /\ SrcOff
  /\ ConnOff
  /\ GmOff
  /\ CacheOff
SpecChan == InitChan /\ [][ChanNext]_vars

InitParse == JobOff /\ RetryOff /\ SchedOff /\ DbOff /\ DateOff /\ ChanOff
  /\ ParseInit
  /\ FpOff
  /\ SrcOff
  /\ ConnOff
  /\ GmOff
  /\ CacheOff
SpecParse == InitParse /\ [][ParseNext]_vars

InitFp == JobOff /\ RetryOff /\ SchedOff /\ DbOff
  /\ DateOff /\ ChanOff /\ ParseOff
  /\ FpInit
  /\ SrcOff
  /\ ConnOff
  /\ GmOff
  /\ CacheOff
SpecFp == InitFp /\ [][FpNext]_vars

InitSrc == JobOff /\ RetryOff /\ SchedOff /\ DbOff
  /\ DateOff /\ ChanOff /\ ParseOff /\ FpOff
  /\ SrcInit
  /\ ConnOff
  /\ GmOff
  /\ CacheOff
\* the interval trigger fires the job again and again and the event loop
\* runs every step of a started cycle
SpecSrc == InitSrc /\ [][SrcNext]_vars /\ WF_vars(SrcNext)

InitConn == JobOff /\ RetryOff /\ SchedOff /\ DbOff
  /\ DateOff /\ ChanOff /\ ParseOff /\ FpOff /\ SrcOff
  /\ ConnInit
  /\ GmOff
  /\ CacheOff
SpecConn == InitConn /\ [][ConnNext]_vars

InitGm == JobOff /\ RetryOff /\ SchedOff /\ DbOff
  /\ DateOff /\ ChanOff /\ ParseOff /\ FpOff /\ SrcOff /\ ConnOff
  /\ GmInit
  /\ CacheOff
SpecGm == InitGm /\ [][GmNext]_vars

InitCache == JobOff /\ RetryOff /\ SchedOff /\ DbOff
  /\ DateOff /\ ChanOff /\ ParseOff /\ FpOff /\ SrcOff /\ ConnOff /\ GmOff
  /\ CacheInit
SpecCache == InitCache /\ [][CacheNext]_vars

(***************************************************************************)
(* Properties of the job cycles and the Dedup Store.                       *)
(***************************************************************************)
RECURSIVE IsSubSeq(_, _)
\* s is t with zero or more elements left out
IsSubSeq(s, t) ==
  IF s = <<>> THEN TRUE
  ELSE IF t = <<>> THEN FALSE
  ELSE IF Head(s) = Head(t) THEN IsSubSeq(Tail(s), Tail(t))
  ELSE IsSubSeq(s, Tail(t))

\* the batch items handled so far whose send was confirmed, in batch order
RECURSIVE SentOf(_, _)
SentOf(items, outcomes) ==
  IF outcomes = <<>> \/ items = <<>> THEN <<>>
  ELSE IF Head(outcomes) = "sent"
       THEN <<Head(items)>> \o SentOf(Tail(items), Tail(outcomes))
       ELSE SentOf(Tail(items), Tail(outcomes))

\* the fingerprints of the batch items whose send failed or was skipped
FailedIds == {batch[k].id : k \in {n \in 1..Len(log) : log[n] = "failed"}}

\* C1: at the end of a cycle in which no storage error occurred the job's
\* namespace holds no fingerprint whose transmit was never confirmed, and
\* holds the fingerprint of every item confirmed in the cycle.
C1_StoreEqualsConfirmed ==
  (pc = "done" /\ ~rerr /\ wfail = {}) =>
    (store \subseteq delivered /\ IdsOf(channel) \subseteq store)

\* C2 as claimed: no item of the batch handed to the send loop has a
\* fingerprint that is already in the job's namespace (committed there
\* after a confirmed transmit).
C2_NoRedelivery ==
  pc = "queued" => IdsOf(batch) \cap (store \cap delivered) = {}

\* C2 amended: an item of the batch has a fingerprint that is in the
\* namespace only if the dedup read for it raised in this cycle.
C2_NoRedeliveryUnlessReadFails ==
  pc = "queued" => (IdsOf(batch) \cap store) \subseteq rfail

\* a committed fingerprint is fetched again, read without error, filtered
C2_Witness ==
  /\ pc = "queued" /\ rfail = {}
  /\ \E k \in 1..Len(fetched) :
       fetched[k].keep /\ fetched[k].id \in store
       /\ fetched[k] \notin Range(batch)
  /\ batch # <<>>

\* C3: the fingerprint of an item whose send failed in this cycle, and
\* that no send of the cycle confirmed, is not in the namespace (the dedup
\* reads of the cycle having succeeded).
C3_FailedNotCommitted ==
  ~rerr => (FailedIds \ IdsOf(channel)) \cap store = {}

\* C4 as claimed: when the cycle ends every item of the batch has been
\* attempted and every item whose send was confirmed is committed.
C4_SkipOnFailure ==
  pc = "done" =>
    (Len(log) = Len(batch) /\ IdsOf(channel) \subseteq store)

\* C4 amended: ... is committed unless its commit raised a storage error.
C4_SkipOnFailureUnlessWriteFails ==
  pc = "done" =>
    (Len(log) = Len(batch) /\ IdsOf(channel) \subseteq (store \cup wfail))

\* a cycle ends in which a send failed and a later item was sent and saved
C4_Witness ==
  /\ pc = "done" /\ job = "cm"
  /\ \E m, n \in 1..Len(log) :
       m < n /\ log[m] = "failed" /\ log[n] = "sent"
       /\ batch[n].id \in store /\ batch[m].id \notin store

\* C5 as claimed: an item whose transmit was confirmed in a cycle abandoned
\* before its commit returned is in the batch of the next cycle whose fetch
\* returns it (for Capital Market: returns it with its description).
C5_ResentAfterCrash ==
  pc = "queued" =>
    \A k \in 1..Len(fetched) :
      (fetched[k].id \in unacked /\ (job = "cm" => fetched[k].keep))
        => fetched[k] \in Range(batch)

\* C5 amended: its fingerprint is absent from the namespace, and it is in
\* the batch of the next cycle whose fetch returns it unless the
\* description or recency filter drops it or MAX_NEWS_PER_RUN articles
\* that pass the filters precede it in the Capital Market listing.
C5_EligibleAfterCrash ==
  /\ unacked \cap store = {}
  /\ pc = "queued" =>
       \A k \in 1..Len(fetched) :
         (fetched[k].id \in unacked /\ fetched[k].keep)
           => \/ fetched[k] \in Range(batch)
              \/ /\ job = "cm"
                 /\ Cardinality({m \in 1..(k - 1) :
                       /\ fetched[m].keep
                       /\ fetched[m].id \in rfail \/ fetched[m].id \notin store})
                      >= MAX_NEWS_PER_RUN

\* after a crash between confirmation and commit the item is queued again
C5_Witness ==
  /\ pc = "queued"
  /\ \E k \in 1..Len(fetched) :
       fetched[k].id \in unacked /\ fetched[k].id \in delivered
       /\ fetched[k] \in Range(batch)

\* C6: at the suspension points between two items of a batch (the next
\* send, the inter-message sleep) every item confirmed so far in the cycle
\* is committed, no commit having raised.
C6_CommitPerItem ==
  (pc \in {"send", "sleep"} /\ wfail = {}) => IdsOf(channel) \subseteq store

\* C7: the batch is the fetched listing with items left out, in the
\* listing's order, and the items transmitted in the cycle are the items
\* of the batch whose send was confirmed, in the batch's order.
C7_OrderPreserved ==
  /\ pc = "queued" => IsSubSeq(batch, fetched)
  /\ channel = SentOf(batch, log)
  /\ IsSubSeq(channel, batch)

\* two different articles were transmitted in one cycle
C7_Witness ==
  /\ pc = "done" /\ job = "cm"
  /\ Len(channel) = 2 /\ channel[1] # channel[2]

(***************************************************************************)
(* Properties of the schedule.                                             *)
(***************************************************************************)
\* C8: at every moment at most one run of a job is in progress; a run
\* begins only at a firing of the job that finds no run of it in progress;
\* a firing that finds one in progress starts nothing and leaves nothing
\* behind for later: the job's next run time moves past the present.
C8_SingleInstance ==
  /\ [](\A j \in JobIds : instances[j] <= 1)
  /\ [][\A j \in JobIds :
          /\ instances'[j] > instances[j]
               => instances[j] = 0 /\ next_run[j] = now
          /\ (sched = "running" /\ next_run'[j] # next_run[j]
                /\ instances[j] > 0)
               => /\ instances'[j] = instances[j]
                  /\ fired'[j] = [what |-> "skipped", at |-> now]
                  /\ next_run'[j] > now]_vars

\* a firing of an interval job was skipped and its run is still in progress
C8_Witness ==
  \E j \in IntervalJobs :
    /\ instances[j] = 1
    /\ fired[j].what = "skipped"
    /\ now > fired[j].at

\* C9: while the scheduler runs no enabled job's run time is ever passed
\* over, whatever the other jobs' runs are suspended in and however long
\* they last: the firing happens at its due tick, and it starts the run
\* when no run of that job is in progress.
C9_NonBlocking ==
  /\ [](sched = "running" =>
          \A j \in JobIds : enabled[j] => now <= next_run[j])
  /\ [][\A j \in JobIds :
          (sched = "running" /\ next_run'[j] # next_run[j]
             /\ instances[j] = 0)
            => /\ next_run[j] = now
               /\ instances'[j] = 1
               /\ fired'[j] = [what |-> "ran", at |-> now]]_vars

\* job k's run has lasted past a firing of its own, and meanwhile job j
\* began a run at its due tick
C9_Witness ==
  \E k \in IntervalJobs, j \in JobIds :
    /\ j # k
    /\ instances[k] = 1 /\ fired[k].what = "skipped"
    /\ waiting[k] \in {"retry_wait", "delay"}
    /\ fired[j].what = "ran" /\ fired[j].at >= fired[k].at
    /\ instances[j] = 1

(***************************************************************************)
(* Properties of retry_with_backoff.                                       *)
(***************************************************************************)
\* every invocation raises an error of the declared set
AllDeclared == \A k \in 1..Len(script) : script[k] = "declared"

\* invocation k is the first one that returns normally, the ones before it
\* having raised declared errors
FirstOk(k) ==
  /\ k \in 1..Len(script)
  /\ script[k] = "ok"
  /\ \A m \in 1..(k - 1) : script[m] = "declared"

Ended(w) == w.pc \in {"returned", "raised"}

AttemptCount(w) ==
  retries >= 0 =>
    /\ AllDeclared =>
         /\ w.calls <= retries + 1
         /\ Ended(w) => w.calls = retries + 1
    /\ \A k \in 1..(retries + 1) :
         FirstOk(k) =>
           /\ w.calls <= k
           /\ Len(w.waits) <= k - 1
           /\ Ended(w) => /\ w.pc = "returned"
                          /\ w.calls = k
                          /\ w.result = [kind |-> "value", of |-> k]

\* C10: with retries = r >= 0, a wrapper invokes the function r + 1 times
\* when every invocation raises a declared error, and k times, with no
\* wait after the k-th, when invocation k <= r + 1 is the first to return
\* normally, and then returns that invocation's result.
C10_RetryAttemptCount ==
  AttemptCount(async_wrapper) /\ AttemptCount(sync_wrapper)

\* both wrappers returned the second invocation's result with a retry left
C10_Witness ==
  /\ retries = 2
  /\ script[1] = "declared" /\ script[2] = "ok"
  /\ async_wrapper.pc = "returned" /\ async_wrapper.calls = 2
  /\ sync_wrapper.pc = "returned" /\ sync_wrapper.calls = 2

RECURSIVE Pow(_, _)
Pow(b, n) == IF n = 0 THEN 1 ELSE b * Pow(b, n - 1)

\* the waits a wrapper requested follow the schedule: the wait before
\* attempt i + 1 is min(initial_delay * backoff_factor^(i-1), max_delay)
OnSchedule(w) ==
  \A i \in 1..Len(w.waits) :
    w.waits[i] = Min(initial_delay * Pow(backoff_factor, i - 1), max_delay)

\* C11: for every attempt k >= 2 the wait performed immediately before it
\* is min(initial_delay * backoff_factor^(k-2), max_delay), whatever the
\* arguments, so no wait exceeds max_delay.
C11_BackoffSchedule ==
  /\ OnSchedule(async_wrapper) /\ OnSchedule(sync_wrapper)
  /\ \A i \in 1..Len(async_wrapper.waits) : async_wrapper.waits[i] <= max_delay
  /\ \A i \in 1..Len(sync_wrapper.waits) : sync_wrapper.waits[i] <= max_delay

\* invocation k is reached: every invocation before it raised a declared
\* error
Reached(k) ==
  /\ k \in 1..Len(script)
  /\ \A m \in 1..(k - 1) : script[m] = "declared"

FinalFailure(w) ==
  (retries >= 0 /\ Reached(retries + 1) /\ script[retries + 1] = "declared")
    => /\ Len(w.waits) <= retries
       /\ w.pc # "returned"
       /\ Ended(w) => /\ w.pc = "raised"
                      /\ w.result = [kind |-> "error", of |-> retries + 1]
                      /\ Len(w.waits) = retries

\* C12: when the last permitted attempt raises a declared error the wrapper
\* ends by raising that attempt's error, not by returning, and it has
\* requested no wait after that attempt (one wait per earlier attempt).
C12_FinalErrorPropagates ==
  FinalFailure(async_wrapper) /\ FinalFailure(sync_wrapper)

\* two retries were used up and the third invocation's error was raised
C12_Witness ==
  /\ retries = 2 /\ AllDeclared
  /\ async_wrapper.pc = "raised" /\ async_wrapper.calls = 3
  /\ Len(async_wrapper.waits) = 2

Undeclared(w) ==
  \A k \in 1..Len(script) :
    (Reached(k) /\ script[k] = "undeclared")
      => /\ w.calls <= k
         /\ Len(w.waits) <= k - 1
         /\ w.pc # "returned"
         /\ Ended(w) => /\ w.pc = "raised"
                        /\ w.result = [kind |-> "error", of |-> k]
                        /\ w.calls = k
                        /\ Len(w.waits) = k - 1

\* C13: when an invocation raises an error outside the declared set the
\* wrapper raises it at once: that invocation is the last and no wait
\* follows it, whatever retries remain.
C13_UndeclaredPropagates ==
  Undeclared(async_wrapper) /\ Undeclared(sync_wrapper)

\* an undeclared error of the first invocation was raised with retries left
C13_Witness ==
  /\ retries = 2 /\ script[1] = "undeclared"
  /\ async_wrapper.pc = "raised" /\ async_wrapper.calls = 1
  /\ async_wrapper.waits = <<>>

\* C14: a fetch that meets only transient failures (timeout, connection
\* reset, HTTP 5xx) is re-attempted by its wrapper until the retry count is
\* used up: the wrapper ends after retries + 1 invocations, for each of
\* the three fetchers.
C14_TransientFetchRetried ==
  (/\ fetcher \in Fetchers
   /\ \A k \in 1..Len(events) : events[k] # "ok"
   /\ Ended(async_wrapper))
    => async_wrapper.calls = retries + 1

\* C15: when the dedup read raises (is_news_sent for an article,
\* get_all_insight_ids for the cycle) the read answers "not sent" / the
\* empty set and the cycle goes on to its batch: every fetched item the
\* failed read concerns is in the batch like a new item, unless the
\* description or recency filter drops it or MAX_NEWS_PER_RUN articles
\* that pass the filters precede it.
C15_ReadFailsClosed ==
  pc = "queued" =>
    \A k \in 1..Len(fetched) :
      (fetched[k].id \in rfail /\ fetched[k].keep)
        => \/ fetched[k] \in Range(batch)
           \/ /\ job = "cm"
              /\ Cardinality({m \in 1..(k - 1) :
                    /\ fetched[m].keep
                    /\ fetched[m].id \in rfail \/ fetched[m].id \notin store})
                   >= MAX_NEWS_PER_RUN

\* a committed article whose read raised is in the batch again
C15_Witness ==
  /\ pc = "queued" /\ job = "cm"
  /\ \E k \in 1..Len(batch) :
       batch[k].id \in rfail /\ batch[k].id \in store

(***************************************************************************)
(* Properties of the store's methods.                                      *)
(***************************************************************************)
OneRowPerKey(table) ==
  \A r1 \in table, r2 \in table : r1.key = r2.key => r1 = r2

\* C16: an add of a fingerprint that is already in its table returns False
\* without an error and leaves the table, the original row with its
\* attributes and sent_at included, exactly as it was; a table never holds
\* two rows of one fingerprint.
C16_CommitIdempotent ==
  /\ [](OneRowPerKey(capital_market_news) /\ OneRowPerKey(notifications))
  /\ [][/\ (returned' # returned /\ returned'.op = "add_sent_news"
              /\ returned'.key \in Keys(capital_market_news))
             => /\ capital_market_news' = capital_market_news
                /\ returned'.ret = FALSE
        /\ (returned' # returned /\ returned'.op = "add_notification"
              /\ returned'.key \in Keys(notifications))
             => /\ notifications' = notifications
                /\ returned'.ret = FALSE]_vars

\* a later add of a stored fingerprint with other attributes returned False
\* and the first row is still the one in the table
C16_Witness ==
  /\ returned.op = "add_sent_news" /\ ~returned.raised /\ ~returned.ret
  /\ \E row \in capital_market_news :
       /\ row.key = returned.key
       /\ row.attrs # returned.attrs
       /\ row.sent_at < db_clock

\* C17 as claimed: once an add returned True for a fingerprint, every later
\* is_news_sent of it returns True and every later get_all_insight_ids
\* holds it, restarts included.
C17_Durable ==
  /\ returned.op = "is_news_sent"
       => (<<"capital_market_news", returned.key>> \in acked => returned.ret)
  /\ returned.op = "get_all_insight_ids"
       => \A f \in InsightIds :
            <<"notifications", f>> \in acked => f \in returned.ret

\* C17 amended: the fingerprint is in its table in every later state,
\* restarts included, and every later read that does not raise reports it.
C17_DurableUnlessReadFails ==
  /\ \A f \in NewsIds :
       <<"capital_market_news", f>> \in acked => f \in Keys(capital_market_news)
  /\ \A f \in InsightIds :
       <<"notifications", f>> \in acked => f \in Keys(notifications)
  /\ (returned.op = "is_news_sent" /\ ~returned.raised)
       => (<<"capital_market_news", returned.key>> \in acked => returned.ret)
  /\ (returned.op = "get_all_insight_ids" /\ ~returned.raised)
       => \A f \in InsightIds :
            <<"notifications", f>> \in acked => f \in returned.ret

\* after two restarts a read reports a fingerprint committed before them
C17_Witness ==
  /\ boots = 2
  /\ returned.op = "is_news_sent" /\ returned.ret
  /\ <<"capital_market_news", returned.key>> \in acked
  /\ \E row \in capital_market_news :
       row.key = returned.key /\ row.sent_at < db_clock

\* C18: every step of the store keeps every row of both tables as it is
\* (rows are only added), and a call of a method of one table leaves the
\* other table unchanged.
C18_InsertOnly ==
  [][/\ capital_market_news \subseteq capital_market_news'
     /\ notifications \subseteq notifications'
     /\ (returned' # returned
           /\ returned'.op \in {"add_sent_news", "is_news_sent"})
          => notifications' = notifications
     /\ (returned' # returned
           /\ returned'.op \in {"add_notification", "get_all_insight_ids"})
          => capital_market_news' = capital_market_news]_vars

\* both tables hold rows, added at different times, after a restart
C18_Witness ==
  /\ boots >= 1
  /\ Cardinality(capital_market_news) = 2
  /\ notifications # {}
  /\ \E r1 \in capital_market_news, r2 \in capital_market_news :
       r1.sent_at < r2.sent_at

(***************************************************************************)
(* Properties of the Capital Market send.                                  *)
(***************************************************************************)
\* C20: a send_news call makes at most 3 attempts; between consecutive
\* attempts it sleeps the same 2 seconds; it returns True at the first
\* attempt that succeeds and False once the third has failed: it has
\* returned whenever 3 attempts were made, and it never raises.
C20_SendRetry ==
  job = "cm" =>
    /\ send_news.tries <= 3
    /\ \A i \in 1..Len(send_news.waits) : send_news.waits[i] = 2
    /\ send_news.ret = "pending" => Len(send_news.waits) = send_news.tries
    /\ send_news.ret # "pending" => Len(send_news.waits) = send_news.tries - 1
    /\ send_news.tries = 3 => send_news.ret \in {"true", "false"}
    /\ send_news.ret = "true"
         => /\ pc = "sent"
            /\ Len(channel) > 0 /\ channel[Len(channel)] = batch[idx]
    /\ send_news.ret = "false" => log # <<>> /\ log[Len(log)] = "failed"

\* the third attempt of a send succeeded after two sleeps
C20_Witness ==
  /\ job = "cm" /\ pc = "sent"
  /\ send_news.tries = 3 /\ send_news.waits = <<2, 2>>
  /\ send_news.ret = "true"

(***************************************************************************)
(* Properties of the recency check.                                        *)
(***************************************************************************)
\* the day a news_date reports: the date of a string in the expected
\* format (a date, alone or followed by a double space and the time of
\* day), "none" for any other value
ReportedDay(date) ==
  LET t == date.text
  IN IF /\ date.str /\ Len(t) >= 1 /\ t[1] \in DateTokens
        /\ \/ Len(t) = 1
           \/ Len(t) = 4 /\ t[2] = " " /\ t[3] = " " /\ t[4] = "3:23 PM (IST)"
     THEN t[1]
     ELSE "none"

\* C19: the recency check drops an insight whose news_date reports another
\* day than today and keeps every other insight: one dated today and one
\* whose news_date is missing or is not a date in the expected format,
\* a non-empty string included.
C19_RecencyFilter ==
  kept \in {"kept", "dropped"} =>
    (kept = "dropped" <=> (ReportedDay(news_date) \notin {"none", today_str}))

(***************************************************************************)
(* Properties of the sends: retries, permanent errors.                     *)
(***************************************************************************)
\* C21: a Market Insights notification whose transmit raised a transient
\* channel error is attempted again within the same cycle: it is counted
\* failed only after more than one attempt.
C21_TransientRetried ==
  (/\ job = "mi" /\ send_notification.ret = "false"
   /\ send_notification.errs # <<>>
   /\ send_notification.errs[1] = "transient")
    => send_notification.tries > 1

\* C22: a permanent channel error ends the send of its item: the attempt
\* that raised it is the last one of the call and no retry wait follows it.
C22_PermanentNotRetried ==
  /\ \A i \in 1..Len(send_news.errs) :
       send_news.errs[i] = "permanent"
         => send_news.tries = i /\ Len(send_news.waits) < i
  /\ \A i \in 1..Len(send_notification.errs) :
       send_notification.errs[i] = "permanent" => send_notification.tries = i

(***************************************************************************)
(* Properties of the channel: rate limit and spacing.                      *)
(***************************************************************************)
\* C23: any two consecutive confirmed transmits to the channel, of the same
\* job or of two jobs whose cycles overlap, are at least the minimum
\* inter-message delay (2 seconds, the shorter of the two pauses) apart.
C23_ChannelRateLimit ==
  [][flip' # flip => since >= 2]_vars

\* C24: in the Capital Market and Market Insights loops a confirmed
\* transmit that is not the last of its batch is followed by one sleep of
\* the fixed delay of the job (2 seconds, RATE_LIMIT_DELAY = 3 seconds),
\* whatever the number of items left, and the next item's send begins only
\* when that sleep has run out.
C24_FixedSpacing ==
  [][\A j \in {"capital_market", "market_insights"} :
       /\ (flip' # flip /\ loop'[j] # loop[j] /\ loop'[j].left > 0)
            => /\ loop'[j].at = "sleep"
               /\ loop'[j].rem = (IF j = "capital_market" THEN 2 ELSE 3)
       /\ (loop[j].at = "sleep" /\ loop'[j].at = "sleep")
            => loop'[j].rem <= loop[j].rem /\ loop'[j].left = loop[j].left
       /\ (loop[j].at = "sleep" /\ loop'[j].at # "sleep")
            => loop[j].rem = 0]_vars

\* the second article of a Capital Market batch is about to be sent, two
\* seconds after the first was confirmed
C24_Witness ==
  /\ loop["capital_market"] = [at |-> "send", left |-> 1, rem |-> 0]
  /\ loop["market_insights"].at = "idle"
  /\ loop["global_markets"].at = "idle"
  /\ since = 2 /\ flip = 1

(***************************************************************************)
(* Properties of the per-run cap.                                          *)
(***************************************************************************)
\* the first n items of a list
FirstN(s, n) == SubSeq(s, 1, Min(Len(s), n))

\* the articles of the listing that the dedup filter took for new
NewOf(articles) ==
  LET new(a) == a.id \notin store \/ a.id \in rfail
  IN SelectSeq(articles, new)

\* C25 as stated: the batch of a Capital Market cycle is the first
\* MAX_NEWS_PER_RUN new articles of the listing, in source order.
C25_FirstNewArticles ==
  (job = "cm" /\ pc = "queued")
    => batch = FirstN(NewOf(fetched), MAX_NEWS_PER_RUN)

\* C25: the batch of a Capital Market cycle is the first MAX_NEWS_PER_RUN
\* new articles that have a description, in source order; the cycle
\* transmits at most that many articles, all of them of the batch, and
\* commits no fingerprint of an article that is not in the batch, so that
\* the articles cut off are neither sent nor committed in the cycle.
C25_FirstDescribedArticles ==
  /\ [](job = "cm" =>
          /\ pc = "queued" =>
               LET described(a) == a.keep
               IN batch = FirstN(SelectSeq(NewOf(fetched), described),
                                 MAX_NEWS_PER_RUN)
          /\ Len(batch) <= MAX_NEWS_PER_RUN
          /\ Len(log) <= Len(batch)
          /\ Len(channel) <= Len(log)
          /\ IsSubSeq(channel, batch))
  /\ [][(job = "cm" /\ pc \in {"queued", "send", "sent", "sleep", "done"})
          => (store' \ store) \subseteq IdsOf(batch)]_vars

\* a listing of more new described articles than the cap: the batch is cut
C25_Witness ==
  /\ job = "cm" /\ pc = "queued" /\ rfail = {}
  /\ Len(fetched) > MAX_NEWS_PER_RUN
  /\ \A k \in 1..Len(fetched) : fetched[k].keep /\ fetched[k].id \notin store
  /\ Len(batch) = MAX_NEWS_PER_RUN

(***************************************************************************)
(* Properties of a failed fetch.                                           *)
(***************************************************************************)
\* C26: a cycle whose fetch or whole-response parse failed works on the
\* empty result: it has no batch, sends nothing, reads and commits nothing
\* and leaves the store as it was; the job function returns (the job is
\* idle again) and the cycle that follows, if the process is not shut down
\* before it, begins with a fetch of its own.
C26_FetchFailureEmptyCycle ==
  /\ [](fetch_failed =>
          /\ pc \in {"queued", "done"}
          /\ fetched = <<>> /\ batch = <<>>
          /\ channel = <<>> /\ log = <<>> /\ ~rerr)
  /\ [][fetch_failed =>
          /\ store' = store /\ delivered' = delivered
          /\ pc' \in {"queued", "done", "idle", "down"}]_vars
  /\ [][(pc = "idle" /\ pc' \notin {"idle", "down"})
          => (pc' = "fetch" /\ ~fetch_failed' /\ fetched' = <<>>)]_vars

\* a cycle whose fetch failed is about to return, the store holding the
\* fingerprints of earlier cycles
C26_Witness ==
  fetch_failed /\ pc = "done" /\ store # {} /\ delivered # {}

(***************************************************************************)
(* Properties of errors inside a job.                                      *)
(***************************************************************************)
\* C27: an error raised inside a job's cycle does not leave the job
\* function: the function handles it and returns.  The step that raises it
\* and the return that follows leave the scheduler running, the run times
\* of all jobs and the runs of the other jobs as they were, and the next
\* due firing of the job, like any firing of an idle job, starts a run.
C27_ErrorIsolation ==
  /\ [](\A j \in JobIds : fired[j].what # "raised")
  /\ [][\A j \in JobIds :
          /\ (waiting'[j] = "except" /\ waiting[j] # "except")
               => /\ sched' = sched /\ next_run' = next_run
                  /\ \A k \in JobIds \ {j} :
                       instances'[k] = instances[k] /\ waiting'[k] = waiting[k]
          /\ (waiting[j] = "except" /\ waiting'[j] # "except")
               => /\ instances'[j] = instances[j] - 1
                  /\ sched' = sched /\ next_run' = next_run
                  /\ \A k \in JobIds \ {j} :
                       instances'[k] = instances[k] /\ waiting'[k] = waiting[k]
          /\ (fired'[j] # fired[j] /\ instances[j] = 0
                /\ fired'[j].what # "missed")
               => fired'[j].what = "ran" /\ instances'[j] = 1]_vars

\* a job is in its except clause while a run of another job is suspended
C27_Witness ==
  /\ sched = "running"
  /\ \E j \in JobIds : \E k \in JobIds :
       /\ j # k
       /\ waiting[j] = "except"
       /\ instances[k] > 0 /\ waiting[k] \in {"send", "retry_wait"}

(***************************************************************************)
(* Properties of the parsers.                                              *)
(***************************************************************************)
\* the ids of the rows from which an item is built, in the rows' order
RECURSIVE GoodIds(_)
GoodIds(rs) ==
  IF rs = <<>> THEN <<>>
  ELSE IF Head(rs).kind = "ok" THEN <<Head(rs).id>> \o GoodIds(Tail(rs))
  ELSE GoodIds(Tail(rs))

\* C28: a row or item that cannot be parsed is skipped alone: after each
\* pass of the loop the list holds, in source order, exactly the items of
\* the well-formed rows seen so far, whatever rows came before them.
C28_PerItemParseErrors ==
  parser \in Parsers =>
    parsed = GoodIds(SubSeq(rows, 1, row_idx - 1))

\* the loop has ended on a listing with a row that raises before a good one
C28_Witness ==
  /\ parser \in Parsers
  /\ row_idx = Len(rows) + 1
  /\ \E i \in 1..Len(rows) : \E k \in 1..Len(rows) :
       i < k /\ rows[i].kind = "raises" /\ rows[k].kind = "ok"
  /\ parsed # <<>>

(***************************************************************************)
(* Properties of a failed commit.                                          *)
(***************************************************************************)
\* C29 as stated: an item whose transmit was confirmed and whose commit
\* raised is absent from the store and is in the batch of the next cycle
\* whose fetch returns it (for Capital Market: returns it with its
\* description).
C29_ResentAfterWriteFailure ==
  pc = "queued" =>
    \A k \in 1..Len(fetched) :
      (/\ fetched[k].id \in wfail /\ fetched[k].id \in delivered
       /\ (job = "cm" => fetched[k].keep))
        => fetched[k].id \notin store /\ fetched[k] \in Range(batch)

\* C29: a commit that raises leaves the store as it was and the job in its
\* loop (the next step is the sleep, the next commit or the return, never
\* the end of the process); and in every cycle an item the source returns
\* whose fingerprint is not in the store is in the batch unless the
\* description or recency filter drops it or MAX_NEWS_PER_RUN articles that
\* pass the filters precede it in the Capital Market listing.
C29_EligibleAfterWriteFailure ==
  /\ [][(wfail' # wfail /\ wfail' # {})
          => /\ store' = store
             /\ pc \in {"sent", "commit"}
             /\ pc' \in {"sleep", "commit", "done"}
             /\ batch' = batch /\ ended' = ended]_vars
  /\ [](pc = "queued" =>
         \A k \in 1..Len(fetched) :
           (fetched[k].keep /\ fetched[k].id \notin store)
             => \/ fetched[k] \in Range(batch)
                \/ /\ job = "cm"
                   /\ Cardinality({m \in 1..(k - 1) :
                         /\ fetched[m].keep
                         /\ fetched[m].id \in rfail \/ fetched[m].id \notin store})
                        >= MAX_NEWS_PER_RUN)

\* the item whose commit raised in the last cycle is queued again
C29_Witness ==
  /\ pc = "queued"
  /\ \E k \in 1..Len(fetched) :
       /\ fetched[k].id \in wfail /\ fetched[k].id \in delivered
       /\ fetched[k].id \notin store
       /\ fetched[k] \in Range(batch)

(***************************************************************************)
(* Properties of shutdown.                                                 *)
(***************************************************************************)
\* C30: once stop() has been called no run of the job is in progress or
\* starts (the only step that follows is the start of a new process); the
\* run that was in flight is abandoned at the await it was suspended in;
\* shutdown leaves the store as it was, and the store changes only by the
\* whole record of a commit call that returned, the job going on after it.
C30_Shutdown ==
  /\ [](ended = "cancel" => (pc = "down" /\ batch = <<>> /\ idx = 0))
  /\ [][ended = "cancel"
          => (ended' = "none" /\ pc' = "idle" /\ store' = store)]_vars
  /\ [][(ended' = "cancel" /\ ended # "cancel")
          => /\ store' = store
             /\ pc \in {"idle", "fetch", "send", "sleep"}]_vars
  /\ [][store' # store
          => /\ pc \in {"sent", "commit"}
             /\ store' = store \cup {batch[idx].id}
             /\ pc' \in {"sleep", "commit", "done"}]_vars

\* the process was shut down; the store holds the records of earlier
\* commits, and a confirmed send of an abandoned run was never committed
C30_Witness ==
  /\ ended = "cancel" /\ pc = "down"
  /\ store # {} /\ unacked # {}

(***************************************************************************)
(* Properties of the job states.                                           *)
(***************************************************************************)
\* C31: a job whose flag is off is never registered (it has no run time),
\* never fires and never runs, and the flags do not change while the
\* process lives; a job's runs go from none in progress to one and back,
\* never otherwise.
C31_DisabledNeverRuns ==
  /\ [](\A j \in JobIds :
          ~enabled[j] => /\ next_run[j] = -1
                         /\ instances[j] = 0 /\ waiting[j] = "none"
                         /\ fired[j].what = "none")
  /\ [][enabled' = enabled]_vars
  /\ [][\A j \in JobIds :
          instances'[j] # instances[j]
            => \/ instances[j] = 0 /\ instances'[j] = 1 /\ enabled[j]
               \/ instances[j] = 1 /\ instances'[j] = 0]_vars

\* a job is off while the scheduler has been running for a whole day and
\* a run of another job is in progress
C31_Witness ==
  /\ sched = "running" /\ now >= DayLen
  /\ \E j \in JobIds : \E k \in JobIds :
       ~enabled[j] /\ enabled[k] /\ instances[k] = 1

(***************************************************************************)
(* Properties of the triggers.                                             *)
(***************************************************************************)
\* C32: every firing of the Global Markets job is at the configured time
\* of day and on a later day than its previous firing; every firing of an
\* interval job is at a multiple of its interval counted from the
\* scheduler's start, the first one interval after the start and each
\* later one exactly one interval after the previous firing, whether or
\* not the run that firing started is still in progress.
C32_Triggers ==
  [][\A j \in JobIds :
       fired'[j] # fired[j]
         => /\ fired'[j].at = now
            /\ j = "global_markets"
                 => /\ now % DayLen = daily_time
                    /\ fired[j].what # "none"
                         => (now \div DayLen) > (fired[j].at \div DayLen)
            /\ j \in IntervalJobs
                 => /\ now % interval[j] = 0
                    /\ fired[j].what = "none" => now = interval[j]
                    /\ fired[j].what # "none"
                         => now = fired[j].at + interval[j]]_vars

\* the Global Markets job has fired on the second day, and an interval
\* job has fired while its previous run was still in progress
C32_Witness ==
  /\ fired["global_markets"].what = "ran"
  /\ fired["global_markets"].at >= DayLen
  /\ \E k \in IntervalJobs :
       fired[k].what = "skipped" /\ fired[k].at > interval[k]

(***************************************************************************)
(* The two wrappers of retry_with_backoff compared.                        *)
(***************************************************************************)
\* C33: called with the same arguments on the same sequence of outcomes,
\* sync_wrapper and async_wrapper do the same: whenever both have ended
\* they made the same number of calls, requested the same waits in the
\* same order and ended alike, with the value or the error of the same
\* invocation; and at the same point of the same attempt they have done
\* the same so far.
C33_WrappersAgree ==
  /\ (Ended(async_wrapper) /\ Ended(sync_wrapper))
       => async_wrapper = sync_wrapper
  /\ (/\ async_wrapper.pc = sync_wrapper.pc
      /\ async_wrapper.attempt = sync_wrapper.attempt)
       => /\ async_wrapper.calls = sync_wrapper.calls
          /\ async_wrapper.waits = sync_wrapper.waits
          /\ async_wrapper.delay = sync_wrapper.delay

\* both wrappers have ended on an undeclared error raised after a retry
C33_Witness ==
  /\ async_wrapper.pc = "raised" /\ sync_wrapper.pc = "raised"
  /\ Len(sync_wrapper.waits) >= 1
  /\ script[sync_wrapper.calls] = "undeclared"

(***************************************************************************)
(* Properties of the fingerprints.                                         *)
(***************************************************************************)
\* C34: fingerprint determinism.  Two items with identical identity fields
\* always receive the same fingerprint, whatever the time of the call, the
\* number of calls made before, the state of the Dedup Store or the process
\* run: among all the items built, the identity fields determine the
\* fingerprint.
C34_FingerprintDeterminism ==
  \A p \in made : \A q \in made : p[1] = q[1] => p[2] = q[2]

\* the same row, link or item was parsed at two different times, in two
\* process runs, with its fingerprint already in the store the second time
C34_Witness ==
  /\ env.run = MaxBoots /\ env.clock = MaxNow /\ env.calls >= 1
  /\ \E p \in made : /\ p[1] = IdentityOf(raw)
                     /\ p[2] \in env.stored
                     /\ p[2] = FingerprintOf(raw, env.clock)
                     /\ p[2] = FingerprintOf(raw, 0)

\* C35: within a single cycle no fingerprint is transmitted successfully
\* more than once: when the fetched batch holds two items with the same
\* fingerprint, the second is not sent after the first was sent (and, for
\* Capital Market, committed) earlier in the cycle, no storage error having
\* occurred.
C35_OncePerCycle ==
  (~rerr /\ wfail = {}) =>
    \A m \in 1..Len(channel) : \A n \in 1..Len(channel) :
      m < n => channel[m].id # channel[n].id

\* C36: no starvation behind failing items.  When the Capital Market source
\* keeps returning an uncommitted article (with a description) whose send
\* would succeed, the article is eventually transmitted under fair
\* scheduling of the job, whatever precedes it in the listing, even
\* MAX_NEWS_PER_RUN or more articles whose send fails on every cycle.
C36_NoStarvation ==
  \A k \in 1..MaxFetch :
    (/\ k <= Len(source) /\ source[k].keep
     /\ fate[source[k].id] = "ok"
     /\ source[k].id \notin store)
      ~> (k <= Len(source) /\ source[k].id \in delivered)

(***************************************************************************)
(* Properties of the connections of the Dedup Store.                       *)
(***************************************************************************)
\* C37: every Dedup Store operation has closed the connection it opened
\* when it returns, on the success path and on every failure path (the
\* already-present path included): wherever another job can run, no
\* connection is open and none holds the write lock.
C37_ClosedOnReturn == conns = {}

(***************************************************************************)
(* Properties of the Global Markets cycle.                                 *)
(***************************************************************************)
\* C38: in a Global Markets cycle a failed send of one category image does
\* not prevent the send attempts for the remaining images (when the cycle
\* ends every image of image_paths was attempted, in order); the cycle
\* reports success if and only if at least one image was sent; and when the
\* fetch returned no data from any API nothing is sent at all.
C38_GlobalMarketsCycle ==
  /\ gm_pc \in {"report", "done"} => Len(gm_log) = Len(image_paths)
  /\ gm_pc = "send" => Len(gm_log) = gm_idx - 1
  /\ gm_pc = "done" =>
       (gm_ret = "true" <=> \E k \in 1..Len(gm_log) : gm_log[k] = "sent")
  /\ (gm_pc \in {"generate", "send", "report", "done"}
      /\ total_items(all_data) = 0) => (gm_log = <<>> /\ gm_ret = "false")

\* a cycle ended with True in which the send of one image failed and the
\* send of a later image succeeded
C38_Witness ==
  /\ gm_pc = "done" /\ gm_ret = "true"
  /\ \E m \in 1..Len(gm_log) : \E n \in 1..Len(gm_log) :
       m < n /\ gm_log[m] = "failed" /\ gm_log[n] = "sent"

(***************************************************************************)
(* Properties of the CacheManager.                                         *)
(***************************************************************************)
\* what was_sent_today is to return for an update key: True exactly when
\* the key was marked on the current IST date and not cleared since
Expected(key) == IF marked[key].date = ist.date THEN "true" ELSE "false"

====
